---- MODULE Spec2Model ----
(***************************************************************************)
(* A model of imgsort's CLIP front end: the byte-level BPE tokenizer       *)
(* (internal/model/tokenizer.go), the image preprocessing pipeline         *)
(* (internal/model/preprocess.go) and the tensor assembly of               *)
(* CLIPSession.Classify (internal/model/clip.go).                          *)
(*                                                                         *)
(* Strings are sequences of Unicode code points; a Go string's bytes are   *)
(* the UTF-8 encoding of that sequence (Utf8).                             *)
(***************************************************************************)
EXTENDS Integers, Sequences, FiniteSets, TLC

VARIABLES
    pc,            \* where the tokenizer's caller stands: start, ready, failed, returned
    encoder,       \* Tokenizer.encoder: symbol -> id
    decoder,       \* Tokenizer.decoder: id -> symbol
    bpeRanks,      \* Tokenizer.bpeRanks: <<left, right>> -> rank
    sotTokenID,    \* Tokenizer.sotTokenID
    eotTokenID,    \* Tokenizer.eotTokenID
    byteEncoder,   \* the package-level byteEncoder table
    op,            \* the call that produced the current state
    arg,           \* its argument
    bpeTokens,     \* Encode: every symbol bpe returned, in text order
    tokens,        \* Encode: the local slice tokens, before padding
    ret,           \* the value the call returned
    err,           \* the error the call returned, "" for none
    img,           \* PreprocessImage: the decoded image
    cropped,       \* the image centerCrop returned
    resized,       \* the image resize returned
    tensorLen,     \* the length of the tensor imageToTensor returned
    session,       \* CLIPSession.session: none, open, destroyed
    allLabels,     \* Classify: the label list
    promptTokens,  \* Classify: per label, Encode's tokens before padding
    tokenIDs,      \* Classify: the token-id buffer
    attentionMask, \* Classify: the attention mask
    logits,        \* Classify: the logits the model returned
    scores,        \* Classify: the map it returned, label -> probability
    catPc,         \* Categorize: idle, loop, classify, done
    imagePaths,    \* Categorize: the image paths it was given
    cats,          \* Categorize: the categories it was given
    threshold,     \* Categorize: the confidence threshold, in 1/probScale
    progressFn,    \* Categorize: whether a progress callback was given
    loopIndex,     \* Categorize: the loop index i
    results,       \* Categorize: the results appended so far
    catErr,        \* Categorize: the error it returned, "" for nil
    events,        \* the calls made so far: progress callback, Classify, moves
    backend,       \* what Classify answered for each image of this input
    firstRun,      \* threshold and results of an earlier run on the same input
    runPc,         \* run: the step the CLI run is at
    runErr,        \* run: the error it returned, "" for nil
    dryRun,        \* run: the --dry-run flag
    moveResults,   \* run: the moves MoveFiles returned
    fs,            \* the file system: the files with their content, the directories
    download       \* EnsureModels and downloadFile: the file at hand and its transfer

imgVars == <<img, cropped, resized, tensorLen>>
clipVars == <<session, allLabels, promptTokens, tokenIDs, attentionMask, logits, scores>>
catVars == <<catPc, imagePaths, cats, threshold, progressFn, loopIndex, results, catErr,
             events, backend, firstRun>>
runVars == <<runPc, runErr, dryRun, moveResults, fs, download>>
tokVars == <<encoder, decoder, bpeRanks, sotTokenID, eotTokenID, byteEncoder>>
vars == <<pc, encoder, decoder, bpeRanks, sotTokenID, eotTokenID, byteEncoder,
          op, arg, bpeTokens, tokens, ret, err,
          img, cropped, resized, tensorLen,
          session, allLabels, promptTokens, tokenIDs, attentionMask, logits, scores,
          catPc, imagePaths, cats, threshold, progressFn, loopIndex, results, catErr,
          events, backend, firstRun, runPc, runErr, dryRun, moveResults, fs, download>>

-----------------------------------------------------------------------------
(* Bounds of the model *)

\* longest short text handed to Encode
MaxLen == 3
\* longest word handed to the merge loop of bpe
MaxWord == 5
\* most entries in a scanned directory
MaxEntries == 4
\* most reads that return bytes in one download
MaxChunks == 2
\* how many repetitions past the context length a long text may have
MaxOver == 1
\* most categories in one call
MaxCats == 2
\* largest width and height of a decoded image
MaxDim == 5
\* how far the bounds of a decoded image may start from (0, 0)
MaxOrigin == 1
\* most image paths in one Categorize call
MaxImages == 2

-----------------------------------------------------------------------------
(* Characters and strings *)

Ord(c) ==
    CASE c = "\n" -> 10 [] c = " " -> 32 [] c = "!" -> 33 [] c = "#" -> 35
      [] c = "'" -> 39 [] c = "/" -> 47 [] c = "1" -> 49 [] c = "<" -> 60
      [] c = ">" -> 62 [] c = "A" -> 65 [] c = "a" -> 97 [] c = "d" -> 100
      [] c = "e" -> 101 [] c = "f" -> 102 [] c = "h" -> 104 [] c = "l" -> 108
      [] c = "m" -> 109 [] c = "n" -> 110 [] c = "o" -> 111 [] c = "p" -> 112
      [] c = "r" -> 114 [] c = "s" -> 115 [] c = "t" -> 116 [] c = "v" -> 118
      [] c = "w" -> 119 [] c = "x" -> 120 [] c = "|" -> 124
      [] c = "c" -> 99 [] c = "g" -> 103 [] c = "i" -> 105 [] c = "u" -> 117
      [] c = "z" -> 122 [] c = "," -> 44
      [] c = "." -> 46 [] c = "_" -> 95 [] c = "b" -> 98 [] c = "j" -> 106
      [] c = "G" -> 71 [] c = "J" -> 74 [] c = "P" -> 80
      [] c = "e'" -> 233   \* U+00E9, two bytes in UTF-8

\* the string whose characters are named by cs
S(cs) == [i \in DOMAIN cs |-> Ord(cs[i])]

SeqsUpTo(A, n) == UNION {[1..k -> A] : k \in 0..n}

Repeat(s, n) == [i \in 1..(n * Len(s)) |-> s[((i - 1) % Len(s)) + 1]]

Min(A) == CHOOSE x \in A : \A y \in A : x <= y

\* a loop "for i := lo; i <= hi; i++ { acc = F(acc, i) }", evaluated by
\* halving the range, the first half settled before the second starts, so
\* that long loops stay shallow
RECURSIVE Loop(_, _, _, _)
Loop(F(_, _), acc, lo, hi) ==
    IF lo > hi THEN acc
    ELSE IF lo = hi THEN F(acc, lo)
    ELSE LET mid == (lo + hi) \div 2
         IN  CHOOSE r \in {Loop(F, half, mid + 1, hi) : half \in {Loop(F, acc, lo, mid)}} : TRUE

Flatten(ss) == Loop(LAMBDA acc, i : acc \o ss[i], <<>>, 1, Len(ss))

sotToken == S(<<"<","|","s","t","a","r","t","o","f","t","e","x","t","|",">">>)
eotToken == S(<<"<","|","e","n","d","o","f","t","e","x","t","|",">">>)
contextLen == 77
endOfWordSfx == S(<<"<","/","w",">">>)

-----------------------------------------------------------------------------
(* The byte encoder *)

\* a variant that takes every byte from 161 up as basic, the soft hyphen included
isBasicByteWholeLatin1(r) ==
    \/ r >= 33 /\ r <= 126
    \/ r >= 161 /\ r <= 255

isBasicByte(r) ==
    \/ r >= 33 /\ r <= 126
    \/ r >= 161 /\ r <= 172
    \/ r >= 174 /\ r <= 255

\* func init: n counts the bytes before b that were not basic
byteEncoderInit ==
    [b \in 0..255 |->
        IF isBasicByte(b) THEN b
        ELSE 256 + Cardinality({c \in 0..(b - 1) : ~isBasicByte(c)})]

\* the bytes of a Go string holding the code points cps
Utf8(cps) ==
    Flatten([i \in DOMAIN cps |->
        LET c == cps[i] IN
        IF c < 128 THEN <<c>>
        ELSE IF c < 2048 THEN <<192 + (c \div 64), 128 + (c % 64)>>
        ELSE <<224 + (c \div 4096), 128 + ((c \div 64) % 64), 128 + (c % 64)>>])

encodeBytes(table, s) ==
    LET bytes == Utf8(s) IN [i \in DOMAIN bytes |-> table[bytes[i]]]

-----------------------------------------------------------------------------
(* strings.ToLower, strings.TrimSpace and the pre-tokenizer pattern *)

\* unicode.ToLower on the Latin-1 range
\* a Go map read at a key it may not hold
mapGetOrZero(m, k) == IF k \in DOMAIN m THEN m[k] ELSE 0

ToLowerRune(c) ==
    IF (c >= 65 /\ c <= 90) \/ (c >= 192 /\ c <= 222 /\ c # 215) THEN c + 32 ELSE c

ToLower(s) == [i \in DOMAIN s |-> ToLowerRune(s[i])]

\* unicode.IsSpace on the Latin-1 range
IsSpace(c) == c \in {9, 10, 11, 12, 13, 32, 133, 160}

\* s without its leading and trailing white space
TrimSpace(s) ==
    IF \A i \in DOMAIN s : IsSpace(s[i]) THEN <<>>
    ELSE LET first == CHOOSE i \in DOMAIN s :
                         ~IsSpace(s[i]) /\ \A k \in 1..(i - 1) : IsSpace(s[k])
             last == CHOOSE i \in DOMAIN s :
                         ~IsSpace(s[i]) /\ \A k \in (i + 1)..Len(s) : IsSpace(s[k])
         IN  SubSeq(s, first, last)

\* the regexp classes \s, \pL and \pN on the Latin-1 range
ReSpace(c) == c \in {9, 10, 12, 13, 32}

ReLetter(c) ==
    \/ c >= 65 /\ c <= 90
    \/ c >= 97 /\ c <= 122
    \/ c \in {170, 181, 186}
    \/ c >= 192 /\ c <= 255 /\ c # 215 /\ c # 247

ReNumber(c) == (c >= 48 /\ c <= 57) \/ c \in {178, 179, 185, 188, 189, 190}

ReOther(c) == ~ReSpace(c) /\ ~ReLetter(c) /\ ~ReNumber(c)

HasAt(text, i, lit) ==
    /\ i + Len(lit) - 1 <= Len(text)
    /\ SubSeq(text, i, i + Len(lit) - 1) = lit

\* the alternatives 's 't 're 've 'm 'll 'd
Contractions ==
    {S(<<"'","s">>), S(<<"'","t">>), S(<<"'","r","e">>), S(<<"'","v","e">>),
     S(<<"'","m">>), S(<<"'","l","l">>), S(<<"'","d">>)}

\* the length of the greedy run of letters (or of other characters) from i
RunLen(text, i, InClass(_)) ==
    LET stop == CHOOSE j \in i..(Len(text) + 1) :
                    /\ j = Len(text) + 1 \/ ~InClass(text[j])
                    /\ \A k \in i..(j - 1) : InClass(text[k])
    IN  stop - i

LetterRun(text, i) == RunLen(text, i, ReLetter)

OtherRun(text, i) == RunLen(text, i, ReOther)

\* the length of the match of pat that starts at i: the first alternative
\* that matches there wins; 0 when none does
patMatchLen(text, i) ==
    IF HasAt(text, i, sotToken) THEN Len(sotToken)
    ELSE IF HasAt(text, i, eotToken) THEN Len(eotToken)
    ELSE IF \E c \in Contractions : HasAt(text, i, c)
        THEN Len(CHOOSE c \in Contractions : HasAt(text, i, c))
    ELSE IF ReLetter(text[i]) THEN LetterRun(text, i)
    ELSE IF ReNumber(text[i]) THEN 1
    ELSE OtherRun(text, i)

\* pat.FindAllString(text, -1): leftmost, non-overlapping. at is where the
\* search for the next match starts.
FindAllString(text) ==
    Loop(LAMBDA st, i :
            IF i < st.at THEN st
            ELSE LET n == patMatchLen(text, i) IN
                 IF n = 0 THEN [at |-> i + 1, out |-> st.out]
                 ELSE [at |-> i + n,
                       out |-> Append(st.out, SubSeq(text, i, i + n - 1))],
         [at |-> 1, out |-> <<>>], 1, Len(text)).out

-----------------------------------------------------------------------------
(* Tokenizer.bpe *)

\* the word split into one symbol per rune, </w> appended to the last
splitWord(runes) ==
    [i \in DOMAIN runes |->
        IF i = Len(runes) THEN <<runes[i]>> \o endOfWordSfx ELSE <<runes[i]>>]

\* the scan for the pair with the lowest rank: <<bestRank, bestPair>>
findBest(ranks, word) ==
    Loop(LAMBDA best, i :
            LET pair == <<word[i], word[i + 1]>> IN
            IF pair \in DOMAIN ranks /\ (best[1] = -1 \/ ranks[pair] < best[1])
            THEN <<ranks[pair], pair>>
            ELSE best,
         <<-1, <<>>>>, 1, Len(word) - 1)

\* a variant that steps on by one symbol after a merge
mergePairStepOne(word, bestPair) ==
    Loop(LAMBDA st, i :
            IF i < st.at THEN st
            ELSE IF i < Len(word) /\ word[i] = bestPair[1] /\ word[i + 1] = bestPair[2]
                 THEN [at |-> i + 1, out |-> Append(st.out, bestPair[1] \o bestPair[2])]
            ELSE [at |-> i + 1, out |-> Append(st.out, word[i])],
         [at |-> 1, out |-> <<>>], 1, Len(word)).out

\* a variant that merges the first occurrence of bestPair and copies the rest
mergePairFirstOnly(word, bestPair) ==
    Loop(LAMBDA st, i :
            IF i < st.at THEN st
            ELSE IF /\ ~st.merged
                    /\ i < Len(word) /\ word[i] = bestPair[1] /\ word[i + 1] = bestPair[2]
                 THEN [at |-> i + 2, merged |-> TRUE,
                       out |-> Append(st.out, bestPair[1] \o bestPair[2])]
            ELSE [at |-> i + 1, merged |-> st.merged, out |-> Append(st.out, word[i])],
         [at |-> 1, merged |-> FALSE, out |-> <<>>], 1, Len(word)).out

\* the merge loop: every occurrence of bestPair, left to right; at is i
mergePair(word, bestPair) ==
    Loop(LAMBDA st, i :
            IF i < st.at THEN st
            ELSE IF i < Len(word) /\ word[i] = bestPair[1] /\ word[i + 1] = bestPair[2]
                 THEN [at |-> i + 2, out |-> Append(st.out, bestPair[1] \o bestPair[2])]
            ELSE [at |-> i + 1, out |-> Append(st.out, word[i])],
         [at |-> 1, out |-> <<>>], 1, Len(word)).out

\* a variant without the break for a scan that finds no pair
bpeTurnNoBreak(ranks, st) ==
    IF st.done THEN st
    ELSE LET best == findBest(ranks, st.word) IN
         IF best[1] = -1 THEN [word |-> st.word, done |-> FALSE]
         ELSE LET newWord == mergePair(st.word, best[2]) IN
              [word |-> newWord, done |-> Len(newWord) = 1]

\* one turn of the for loop; done once it has hit a break
bpeTurn(ranks, st) ==
    IF st.done THEN st
    ELSE LET best == findBest(ranks, st.word) IN
         IF best[1] = -1 THEN [word |-> st.word, done |-> TRUE]
         ELSE LET newWord == mergePair(st.word, best[2]) IN
              [word |-> newWord, done |-> Len(newWord) = 1]

\* the for loop: every turn but the last shortens the word, so it takes at
\* most Len(word) turns
bpeLoop(ranks, word) ==
    Loop(LAMBDA st, n : bpeTurn(ranks, st),
         [word |-> word, done |-> FALSE], 1, Len(word)).word

bpe(ranks, token) ==
    IF Len(token) = 0 THEN <<>>
    ELSE LET word == splitWord(token) IN
         IF Len(word) = 1 THEN word ELSE bpeLoop(ranks, word)

-----------------------------------------------------------------------------
(* Tokenizer.Encode *)

\* every symbol bpe returns for the matches of the pattern, in text order
encodeSymbols(table, ranks, text) ==
    LET matches == FindAllString(ToLower(TrimSpace(text))) IN
    Flatten([m \in DOMAIN matches |-> bpe(ranks, encodeBytes(table, matches[m]))])

\* the loop over the symbols: one with a vocabulary entry appends its id
\* a variant that writes 0 for a symbol without a vocabulary entry
appendIdsOrZero(enc, toks, syms) ==
    Loop(LAMBDA acc, i : Append(acc, mapGetOrZero(enc, syms[i])), toks, 1, Len(syms))

appendIds(enc, toks, syms) ==
    Loop(LAMBDA acc, i :
            IF syms[i] \in DOMAIN enc THEN Append(acc, enc[syms[i]]) ELSE acc,
         toks, 1, Len(syms))

\* a variant that forgets the end-of-text id
encodeTokensNoEot(enc, sot, eot, syms) == appendIds(enc, <<sot>>, syms)

\* tokens as it stands before the padding loop
encodeTokens(enc, sot, eot, syms) == Append(appendIds(enc, <<sot>>, syms), eot)

\* a variant that slices instead of copying into a fixed-length result
padOrTruncateSlice(toks) ==
    [i \in 1..(IF Len(toks) < contextLen THEN Len(toks) ELSE contextLen) |-> toks[i]]

\* a variant that keeps the last id of an over-long list in the last slot
padOrTruncateKeepLast(toks) ==
    [i \in 1..contextLen |->
        IF i = contextLen /\ Len(toks) > contextLen THEN toks[Len(toks)]
        ELSE IF i - 1 < Len(toks) THEN toks[i] ELSE 0]

\* result := make([]int64, contextLen), then the copy loop
padOrTruncate(toks) ==
    [i \in 1..contextLen |-> IF i - 1 < Len(toks) THEN toks[i] ELSE 0]

Encode(table, ranks, enc, sot, eot, text) ==
    padOrTruncate(encodeTokens(enc, sot, eot, encodeSymbols(table, ranks, text)))

\* fmt.Sprintf("a photo of %s", cat)
categoryPrompt(cat) == S(<<"a"," ","p","h","o","t","o"," ","o","f"," ">>) \o cat

EncodeCategories(table, ranks, enc, sot, eot, categories) ==
    Flatten([c \in DOMAIN categories |->
        Encode(table, ranks, enc, sot, eot, categoryPrompt(categories[c]))])

-----------------------------------------------------------------------------
(* LoadTokenizer *)

HasPrefix(s, prefix) == HasAt(s, 1, prefix)

\* strings.Split(s, "\n"): the pieces between the line feeds
splitLines(s) ==
    LET cuts == {0, Len(s) + 1} \cup {i \in DOMAIN s : s[i] = 10}
        starts == cuts \ {Len(s) + 1}
        nth(k) == CHOOSE c \in starts : Cardinality({d \in starts : d < c}) = k - 1
    IN  [k \in 1..Cardinality(starts) |->
            SubSeq(s, nth(k) + 1, Min({c \in cuts : c > nth(k)}) - 1)]

\* strings.SplitN(line, " ", 2)
splitN2(line) ==
    IF \E i \in DOMAIN line : line[i] = 32
    THEN LET i == CHOOSE j \in DOMAIN line :
                      line[j] = 32 /\ \A k \in 1..(j - 1) : line[k] # 32
         IN <<SubSeq(line, 1, i - 1), SubSeq(line, i + 1, Len(line))>>
    ELSE <<line>>

\* one turn of the loop over the lines of the merges file; i counts from 0
mergeLine(ranks, i, rawLine) ==
    IF i = 0 /\ HasPrefix(rawLine, S(<<"#">>)) THEN ranks
    ELSE LET line == TrimSpace(rawLine) IN
         IF line = <<>> THEN ranks
         ELSE LET parts == splitN2(line) IN
              IF Len(parts) # 2 THEN ranks
              ELSE LET pair == <<parts[1], parts[2]>> IN
                   [q \in DOMAIN ranks \cup {pair} |->
                       IF q = pair THEN Cardinality(DOMAIN ranks) ELSE ranks[q]]

parseMerges(data) ==
    LET lines == splitLines(data) IN
    Loop(LAMBDA ranks, i : mergeLine(ranks, i, lines[i + 1]), <<>>, 0, Len(lines) - 1)

\* decoder[v] = k for every k, v of the encoder, in Go's map order: of the
\* keys that share an id, the one visited last stays
RECURSIVE decodersFrom(_, _, _)
decodersFrom(enc, ids, d) ==
    IF ids = {} THEN {d}
    ELSE LET v == CHOOSE x \in ids : TRUE IN
         UNION {decodersFrom(enc, ids \ {v}, (v :> k) @@ d) :
                  k \in {x \in DOMAIN enc : enc[x] = v}}

decodersOf(enc) == decodersFrom(enc, {enc[k] : k \in DOMAIN enc}, <<>>)

-----------------------------------------------------------------------------
(* The files and texts the model runs on *)

W(cs) == S(cs) \o endOfWordSfx

\* a vocabulary whose ids are exactly 0 .. size-1, as CLIP's is
vocabCLIP ==
    W(<<"!">>) :> 0 @@ sotToken :> 1 @@ eotToken :> 2 @@ W(<<"a">>) :> 3
    @@ W(<<"1">>) :> 4 @@ W(<<"'","s">>) :> 5 @@ W(<<"a","s">>) :> 6
    @@ S(<<"a">>) :> 7 @@ W(<<"p","h","o","t","o">>) :> 8 @@ W(<<"o","f">>) :> 9
    @@ S(<<"!">>) :> 10 @@ W(<<"s">>) :> 11

\* ids 0 .. size-1 with the start-of-text string at id 0
vocabSotFirst ==
    sotToken :> 0 @@ eotToken :> 1 @@ W(<<"a">>) :> 2 @@ W(<<"!">>) :> 3
    @@ W(<<"1">>) :> 4

\* a vocabulary file without the two marker strings, and with two
\* strings that share an id
vocabNoMarkers == W(<<"a">>) :> 5 @@ W(<<"1">>) :> 7 @@ W(<<"!">>) :> 7

VocabFiles ==
    {[kind |-> "unreadable"], [kind |-> "malformed"]}
    \cup {[kind |-> "object", map |-> m] :
            m \in {vocabCLIP, vocabSotFirst, vocabNoMarkers}}

joinLines(ls) ==
    Flatten([i \in DOMAIN ls |-> IF i = 1 THEN ls[i] ELSE <<10>> \o ls[i]])

mergesCLIP ==
    joinLines(<<S(<<"#","v">>),
                S(<<"a"," ","s","<","/","w",">">>),
                S(<<"p"," ","h">>),
                S(<<"t"," ","o","<","/","w",">">>),
                S(<<"p","h"," ","o">>),
                S(<<"p","h","o"," ","t","o","<","/","w",">">>),
                S(<<"o"," ","f","<","/","w",">">>),
                S(<<"'"," ","s","<","/","w",">">>),
                <<>>>>)

\* no header; a blank line, a line of one word and a rule listed twice
mergesRough ==
    joinLines(<<S(<<"a"," ","s","<","/","w",">">>),
                <<>>,
                S(<<"x">>),
                S(<<" ","!"," ","!","<","/","w",">"," ">>),
                S(<<"a"," ","s","<","/","w",">">>),
                S(<<"a"," ","a">>)>>)

\* rules in an order no training run gives: the rule for (as, a) precedes the
\* rule that makes "as"
mergesUnordered ==
    joinLines(<<S(<<"a","s"," ","a">>),
                S(<<"a"," ","s">>)>>)

\* a rule listed twice, followed by a new rule
mergesRepeated ==
    joinLines(<<S(<<"a"," ","s">>),
                S(<<"a"," ","s">>),
                S(<<"s"," ","s">>),
                S(<<"s","s"," ","a","<","/","w",">">>)>>)

\* every rule after the rules that make its two symbols
mergesOrdered ==
    joinLines(<<S(<<"#","v">>),
                S(<<"a"," ","s">>),
                S(<<"s"," ","a","<","/","w",">">>),
                S(<<"a","s"," ","a","s">>),
                S(<<"a"," ","a">>),
                S(<<"a","s","a","s"," ","s","a","<","/","w",">">>)>>)

\* a header and no rule
mergesHeaderOnly == S(<<"#","v">>)

BpeMerges == {mergesUnordered, mergesRepeated, mergesOrdered, mergesHeaderOnly}

BpeWords == SeqsUpTo({Ord("a"), Ord("s")}, MaxWord)

MergesFiles ==
    {[kind |-> "unreadable"]}
    \cup {[kind |-> "text", data |-> d] : d \in {mergesCLIP, mergesRough}}

TextAlphabet == {Ord(c) : c \in {"a", "A", "s", "'", "1", "!", " ", "e'"}}
WordAlphabet == {Ord(c) : c \in {"a", "s", "'", "e'"}}

ShortTexts == SeqsUpTo(TextAlphabet, MaxLen)

\* a unit repeated about contextLen times
Units == {S(<<"1">>), S(<<"a"," ">>), S(<<"1","!">>), S(<<"a">>), S(<<"!"," ">>)}

LongTexts ==
    {Repeat(u, n) : u \in Units, n \in (contextLen - 3)..(contextLen + MaxOver)}

MarkerTexts == {sotToken, eotToken \o S(<<"a">>), S(<<"!">>) \o eotToken}

Texts == ShortTexts \cup LongTexts \cup MarkerTexts

Words == SeqsUpTo(WordAlphabet, MaxLen)

Categories == {<<>>, S(<<"a">>), S(<<"!">>), S(<<"a","s"," ","1">>)}

CategoryLists == SeqsUpTo(Categories, MaxCats)

-----------------------------------------------------------------------------
(* Images: image.Rectangle, image.RGBA and the preprocessing pipeline *)

clipImageSize == 224

\* image.Rect: the corners put in order
Rect(x0, y0, x1, y1) ==
    [minX |-> IF x0 > x1 THEN x1 ELSE x0, minY |-> IF y0 > y1 THEN y1 ELSE y0,
     maxX |-> IF x0 > x1 THEN x0 ELSE x1, maxY |-> IF y0 > y1 THEN y0 ELSE y1]

Dx(r) == r.maxX - r.minX
Dy(r) == r.maxY - r.minY

InRect(r, x, y) == r.minX <= x /\ x < r.maxX /\ r.minY <= y /\ y < r.maxY

PointsOf(r) == (r.minX..(r.maxX - 1)) \X (r.minY..(r.maxY - 1))

\* the zero color At returns outside an image's bounds
zeroColor == <<>>

noImage == [id |-> 0, rect |-> Rect(0, 0, 0, 0), pix |-> <<>>]

\* the image image.Decode returns: object id, bounds, and at every point a
\* color of its own, named after the point
decodedImage(id, r) == [id |-> id, rect |-> r, pix |-> [p \in PointsOf(r) |-> p]]

\* img.At(x, y)
At(image, x, y) == IF InRect(image.rect, x, y) THEN image.pix[<<x, y>>] ELSE zeroColor

\* a variant that takes the crop rectangle from (0, 0), not from bounds.Min
centerCropFromOrigin(image, newId) ==
    LET bounds == image.rect
        w == Dx(bounds)
        h == Dy(bounds)
    IN  IF w = h THEN image
        ELSE LET cropRect ==
                     IF w > h
                     THEN Rect((w - h) \div 2, 0, ((w - h) \div 2) + h, h)
                     ELSE Rect(0, (h - w) \div 2, w, ((h - w) \div 2) + w)
                 out == Rect(0, 0, Dx(cropRect), Dy(cropRect))
             IN  [id |-> newId, rect |-> out,
                  pix |-> [p \in PointsOf(out) |->
                              At(image, cropRect.minX + p[1], cropRect.minY + p[2])]]

\* centerCrop; newId is the identity of the image.NewRGBA it allocates
centerCrop(image, newId) ==
    LET bounds == image.rect
        w == Dx(bounds)
        h == Dy(bounds)
    IN  IF w = h THEN image
        ELSE LET cropRect ==
                     IF w > h
                     THEN LET offset == (w - h) \div 2 IN
                          Rect(bounds.minX + offset, bounds.minY,
                               bounds.minX + offset + h, bounds.maxY)
                     ELSE LET offset == (h - w) \div 2 IN
                          Rect(bounds.minX, bounds.minY + offset,
                               bounds.maxX, bounds.minY + offset + w)
                 out == Rect(0, 0, Dx(cropRect), Dy(cropRect))
             IN  [id |-> newId, rect |-> out,
                  pix |-> [p \in PointsOf(out) |->
                              At(image, cropRect.minX + p[1], cropRect.minY + p[2])]]

\* a variant that never enlarges: the destination is no larger than the source
resizeNoUpscale(image, width, height, newId) ==
    [id |-> newId,
     rect |-> Rect(0, 0, IF Dx(image.rect) < width THEN Dx(image.rect) ELSE width,
                         IF Dy(image.rect) < height THEN Dy(image.rect) ELSE height),
     pix |-> <<>>]

\* resize: dst := image.NewRGBA(image.Rect(0, 0, width, height)). The colors
\* the loop interpolates are not kept: pix stays empty.
resize(image, width, height, newId) ==
    [id |-> newId, rect |-> Rect(0, 0, width, height), pix |-> <<>>]

\* whether float64(srcLen) / float64(dstLen) is exact: the quotient is a
\* whole number of 2^-j
ratioExact(srcLen, dstLen) == \E j \in 0..10 : (srcLen * 2^j) % dstLen = 0

\* the destination indexes whose source coordinate n * ratio is a whole number
\* that the float64 product, or the fused multiply-add some targets compile
\* it to, may fall just short of when the ratio is rounded
shortOf(srcLen, dstLen) ==
    IF ratioExact(srcLen, dstLen) THEN {}
    ELSE {n \in 1..(dstLen - 1) : (n * srcLen) % dstLen = 0}

\* a variant without the clamp of the second sample
sampleAxisNoClamp(n, srcLen, dstLen, lo, hi, low) ==
    LET x0 == (n * srcLen) \div dstLen + lo - (IF n \in low THEN 1 ELSE 0)
    IN  <<x0, x0 + 1>>

\* the loop body of resize along one axis: <<x0, x1>> for destination index
\* n of a source that spans lo .. hi-1; low holds the indexes where the
\* floating-point coordinate falls short of the whole number
sampleAxis(n, srcLen, dstLen, lo, hi, low) ==
    LET x0 == (n * srcLen) \div dstLen + lo - (IF n \in low THEN 1 ELSE 0)
        x1 == x0 + 1
    IN  <<x0, IF x1 >= hi THEN hi - 1 ELSE x1>>

\* the columns and rows resize reads for every destination column and row
resizeSamples(image, width, height, lowX, lowY) ==
    [xs |-> [x \in 0..(width - 1) |->
                sampleAxis(x, Dx(image.rect), width, image.rect.minX, image.rect.maxX, lowX)],
     ys |-> [y \in 0..(height - 1) |->
                sampleAxis(y, Dy(image.rect), height, image.rect.minY, image.rect.maxY, lowY)]]

\* imageToTensor: len(make([]float32, 3*h*w))
imageToTensor(image) == 3 * Dy(image.rect) * Dx(image.rect)

\* PreprocessImage on a file that is missing, undecodable, or an image
PreprocessImage(file) ==
    IF file.kind = "missing"
    THEN [err |-> "cannot open image", img |-> noImage, cropped |-> noImage,
          resized |-> noImage, tensorLen |-> 0]
    ELSE IF file.kind = "undecodable"
    THEN [err |-> "cannot decode image", img |-> noImage, cropped |-> noImage,
          resized |-> noImage, tensorLen |-> 0]
    ELSE LET decoded == decodedImage(1, file.rect)
             crop == centerCrop(decoded, 2)
             small == resize(crop, clipImageSize, clipImageSize, 3)
         IN  [err |-> "", img |-> decoded, cropped |-> crop, resized |-> small,
              tensorLen |-> imageToTensor(small)]

\* the bounds a decoder can return: at least 1 x 1, from any origin
ImageRects ==
    {Rect(x, y, x + w, y + h) : x \in (-MaxOrigin)..MaxOrigin, y \in (-MaxOrigin)..MaxOrigin,
                                w \in 1..MaxDim, h \in 1..MaxDim}

\* sources smaller than, as large as, and larger than the destination
ResizeLens == (1..MaxDim) \cup {clipImageSize, clipImageSize + MaxDim}

ResizeRects ==
    {Rect(x, y, x + w, y + h) : x \in (-MaxOrigin)..MaxOrigin, y \in (-MaxOrigin)..MaxOrigin,
                                w \in ResizeLens, h \in ResizeLens}

ImageFiles ==
    {[kind |-> "missing"], [kind |-> "undecodable"]}
    \cup {[kind |-> "image", rect |-> r] : r \in ImageRects}

-----------------------------------------------------------------------------
(* The tokenizer and its callers *)

TokInit ==
    /\ pc = "start"
    /\ encoder = <<>>
    /\ decoder = <<>>
    /\ bpeRanks = <<>>
    /\ sotTokenID = 0
    /\ eotTokenID = 0
    /\ byteEncoder = byteEncoderInit
    /\ op = "none"
    /\ arg = <<>>
    /\ bpeTokens = <<>>
    /\ tokens = <<>>
    /\ ret = <<>>
    /\ err = ""

ImgIdle ==
    /\ img = noImage
    /\ cropped = noImage
    /\ resized = noImage
    /\ tensorLen = 0

ClipIdle ==
    /\ session = "none"
    /\ allLabels = <<>>
    /\ promptTokens = <<>>
    /\ tokenIDs = <<>>
    /\ attentionMask = <<>>
    /\ logits = <<>>
    /\ scores = <<>>

CatIdle ==
    /\ catPc = "idle"
    /\ imagePaths = <<>>
    /\ cats = <<>>
    /\ threshold = 0
    /\ progressFn = FALSE
    /\ loopIndex = 0
    /\ results = <<>>
    /\ catErr = ""
    /\ events = <<>>
    /\ backend = <<>>
    /\ firstRun = <<>>

\* a file system without any file or directory
noFiles == [files |-> <<>>, dirs |-> {}]

\* no file at hand
noDownload == [m |-> 0, body |-> <<>>, expectedHash |-> <<>>, downloaded |-> 0, hashed |-> <<>>]

RunIdle ==
    /\ runPc = "idle"
    /\ runErr = ""
    /\ dryRun = FALSE
    /\ moveResults = <<>>
    /\ fs = noFiles
    /\ download = noDownload

Init == TokInit /\ ImgIdle /\ ClipIdle /\ CatIdle /\ RunIdle

\* the error LoadTokenizer returns for the two files, "" for none
loadTokenizerErr(vf, mf) ==
    IF vf.kind = "unreadable" THEN "cannot read vocab file"
    ELSE IF vf.kind = "malformed" THEN "cannot parse vocab file"
    ELSE IF mf.kind = "unreadable" THEN "cannot read merges file"
    ELSE ""

LoadTokenizer ==
    /\ pc = "start"
    /\ op' = "LoadTokenizer"
    /\ UNCHANGED <<byteEncoder, arg, bpeTokens, tokens, ret, imgVars, clipVars, catVars, runVars>>
    /\ \E vf \in VocabFiles, mf \in MergesFiles :
         IF loadTokenizerErr(vf, mf) # ""
         THEN /\ err' = loadTokenizerErr(vf, mf)
              /\ pc' = "failed"
              /\ UNCHANGED <<encoder, decoder, bpeRanks, sotTokenID, eotTokenID>>
         ELSE /\ encoder' = vf.map
              /\ bpeRanks' = parseMerges(mf.data)
              /\ decoder' \in decodersOf(vf.map)
              /\ sotTokenID' = mapGetOrZero(vf.map, sotToken)
              /\ eotTokenID' = mapGetOrZero(vf.map, eotToken)
              /\ err' = ""
              /\ pc' = "returned"

\* a variant that gives every symbol without a vocabulary entry a new id
EncodeCallGrowing ==
    /\ pc = "ready"
    /\ \E text \in Texts :
         /\ arg' = text
         /\ bpeTokens' = encodeSymbols(byteEncoder, bpeRanks, text)
         /\ tokens' = encodeTokens(encoder, sotTokenID, eotTokenID, bpeTokens')
         /\ ret' = padOrTruncate(tokens')
         /\ encoder' = [k \in DOMAIN encoder \cup {bpeTokens'[i] : i \in DOMAIN bpeTokens'} |->
                           IF k \in DOMAIN encoder THEN encoder[k]
                           ELSE Cardinality(DOMAIN encoder)]
    /\ op' = "Encode"
    /\ pc' = "returned"
    /\ UNCHANGED <<decoder, bpeRanks, sotTokenID, eotTokenID, byteEncoder, err,
                   imgVars, clipVars, catVars, runVars>>

EncodeCall ==
    /\ pc = "ready"
    /\ \E text \in Texts :
         /\ arg' = text
         /\ bpeTokens' = encodeSymbols(byteEncoder, bpeRanks, text)
         /\ tokens' = encodeTokens(encoder, sotTokenID, eotTokenID, bpeTokens')
         /\ ret' = padOrTruncate(tokens')
    /\ op' = "Encode"
    /\ pc' = "returned"
    /\ UNCHANGED <<tokVars, err, imgVars, clipVars, catVars, runVars>>

EncodeCategoriesCall ==
    /\ pc = "ready"
    /\ \E categories \in CategoryLists :
         /\ arg' = categories
         /\ ret' = EncodeCategories(byteEncoder, bpeRanks, encoder,
                                    sotTokenID, eotTokenID, categories)
    /\ op' = "EncodeCategories"
    /\ pc' = "returned"
    /\ UNCHANGED <<tokVars, bpeTokens, tokens, err, imgVars, clipVars, catVars, runVars>>

encodeBytesCall ==
    /\ pc = "ready"
    /\ \E s \in Words :
         /\ arg' = s
         /\ ret' = encodeBytes(byteEncoder, s)
    /\ op' = "encodeBytes"
    /\ pc' = "returned"
    /\ UNCHANGED <<tokVars, bpeTokens, tokens, err, imgVars, clipVars, catVars, runVars>>

bpeCall ==
    /\ pc = "ready"
    /\ \E s \in Words :
         /\ arg' = encodeBytes(byteEncoder, s)
         /\ ret' = bpe(bpeRanks, arg')
    /\ op' = "bpe"
    /\ pc' = "returned"
    /\ UNCHANGED <<tokVars, bpeTokens, tokens, err, imgVars, clipVars, catVars, runVars>>

\* the caller takes the result and is ready for the next call
Return ==
    /\ pc = "returned"
    /\ pc' = "ready"
    /\ op' = "none"
    /\ arg' = <<>>
    /\ bpeTokens' = <<>>
    /\ tokens' = <<>>
    /\ ret' = <<>>
    /\ UNCHANGED <<tokVars, err, imgVars, clipVars, catVars, runVars>>

Next ==
    \/ LoadTokenizer
    \/ EncodeCall
    \/ EncodeCategoriesCall
    \/ encodeBytesCall
    \/ bpeCall
    \/ Return

Spec == Init /\ [][Next]_vars

-----------------------------------------------------------------------------
(* Tokenizer.bpe, one turn of its for loop at a time *)

\* a tokenizer loaded from the CLIP vocabulary and one of the merges files
BpeInit ==
    /\ pc = "ready"
    /\ encoder = vocabCLIP
    /\ decoder \in decodersOf(vocabCLIP)
    /\ \E data \in BpeMerges : bpeRanks = parseMerges(data)
    /\ sotTokenID = mapGetOrZero(vocabCLIP, sotToken)
    /\ eotTokenID = mapGetOrZero(vocabCLIP, eotToken)
    /\ byteEncoder = byteEncoderInit
    /\ op = "none"
    /\ arg = <<>>
    /\ bpeTokens = <<>>
    /\ tokens = <<>>
    /\ ret = <<>>
    /\ err = ""
    /\ ImgIdle
    /\ ClipIdle
    /\ CatIdle
    /\ RunIdle

\* the call up to the for loop: the early returns and the split into symbols
bpeBegin ==
    /\ pc = "ready"
    /\ \E s \in BpeWords :
         LET token == encodeBytes(byteEncoder, s)
             word == splitWord(token)
         IN  /\ arg' = token
             /\ IF Len(token) = 0
                THEN pc' = "returned" /\ ret' = <<>> /\ bpeTokens' = <<>>
                ELSE IF Len(word) = 1
                THEN pc' = "returned" /\ ret' = word /\ bpeTokens' = word
                ELSE pc' = "bpeLoop" /\ ret' = <<>> /\ bpeTokens' = word
    /\ op' = "bpe"
    /\ UNCHANGED <<tokVars, tokens, err, imgVars, clipVars, catVars, runVars>>

\* one turn of the for loop: the scan, then a break or the merge; bpeTokens is word
bpeStep ==
    /\ pc = "bpeLoop"
    /\ \E st \in {bpeTurn(bpeRanks, [word |-> bpeTokens, done |-> FALSE])} :
           /\ bpeTokens' = st.word
           /\ IF st.done
              THEN pc' = "returned" /\ ret' = st.word
              ELSE pc' = "bpeLoop" /\ ret' = ret
    /\ UNCHANGED <<tokVars, op, arg, tokens, err, imgVars, clipVars, catVars, runVars>>

BpeNext ==
    \/ bpeBegin
    \/ bpeStep
    \/ Return

SpecBpe == BpeInit /\ [][BpeNext]_vars

\* the for loop has no blocking call: a turn that can run does run
SpecBpeLive == SpecBpe /\ WF_vars(bpeStep)

-----------------------------------------------------------------------------
(* The image pipeline as operations *)

ImgInit ==
    /\ pc = "ready"
    /\ encoder = <<>>
    /\ decoder = <<>>
    /\ bpeRanks = <<>>
    /\ sotTokenID = 0
    /\ eotTokenID = 0
    /\ byteEncoder = byteEncoderInit
    /\ op = "none"
    /\ arg = <<>>
    /\ bpeTokens = <<>>
    /\ tokens = <<>>
    /\ ret = <<>>
    /\ err = ""
    /\ ImgIdle
    /\ ClipIdle
    /\ CatIdle
    /\ RunIdle

\* centerCrop called on an image in memory
centerCropCall ==
    /\ pc = "ready"
    /\ \E r \in ImageRects :
         /\ img' = decodedImage(1, r)
         /\ cropped' = centerCrop(img', 2)
    /\ op' = "centerCrop"
    /\ pc' = "returned"
    /\ UNCHANGED <<tokVars, arg, bpeTokens, tokens, ret, err, resized, tensorLen, clipVars, catVars, runVars>>

\* resize called on an image in memory; ret keeps the coordinates it reads
resizeCall ==
    /\ pc = "ready"
    /\ \E r \in ResizeRects :
         \E lowX \in SUBSET shortOf(Dx(r), clipImageSize),
            lowY \in SUBSET shortOf(Dy(r), clipImageSize) :
             /\ img' = decodedImage(1, r)
             /\ resized' = resize(img', clipImageSize, clipImageSize, 2)
             /\ ret' = resizeSamples(img', clipImageSize, clipImageSize, lowX, lowY)
    /\ op' = "resize"
    /\ pc' = "returned"
    /\ UNCHANGED <<tokVars, arg, bpeTokens, tokens, err, cropped, tensorLen, clipVars, catVars, runVars>>

PreprocessImageCall ==
    /\ pc = "ready"
    /\ \E file \in ImageFiles :
         LET out == PreprocessImage(file) IN
         /\ arg' = file
         /\ err' = out.err
         /\ img' = out.img
         /\ cropped' = out.cropped
         /\ resized' = out.resized
         /\ tensorLen' = out.tensorLen
    /\ op' = "PreprocessImage"
    /\ pc' = "returned"
    /\ UNCHANGED <<tokVars, bpeTokens, tokens, ret, clipVars, catVars, runVars>>

ImgReturn ==
    /\ pc = "returned"
    /\ pc' = "ready"
    /\ op' = "none"
    /\ arg' = <<>>
    /\ err' = ""
    /\ img' = noImage
    /\ cropped' = noImage
    /\ resized' = noImage
    /\ tensorLen' = 0
    /\ ret' = <<>>
    /\ UNCHANGED <<tokVars, bpeTokens, tokens, clipVars, catVars, runVars>>

ImgNext ==
    \/ centerCropCall
    \/ resizeCall
    \/ PreprocessImageCall
    \/ ImgReturn

SpecImg == ImgInit /\ [][ImgNext]_vars

-----------------------------------------------------------------------------
(* scanner.Scan *)

SupportedExtensions ==
    {S(<<".","j","p","g">>), S(<<".","j","p","e","g">>), S(<<".","p","n","g">>),
     S(<<".","g","i","f">>), S(<<".","b","m","p">>), S(<<".","w","e","b","p">>),
     S(<<".","t","i","f","f">>), S(<<".","t","i","f">>)}

\* filepath.Ext of a name without separator: from the last dot on, "" without dot
Ext(name) ==
    IF \E i \in DOMAIN name : name[i] = Ord(".")
    THEN LET i == CHOOSE j \in DOMAIN name :
                      name[j] = Ord(".") /\ \A k \in (j + 1)..Len(name) : name[k] # Ord(".")
         IN  SubSeq(name, i, Len(name))
    ELSE <<>>

\* filepath.Join(dir, name) for a clean dir and a name without separator
Join(dir, name) == dir \o S(<<"/">>) \o name

\* a variant that compares the extension as it is spelled
scanEntryCaseSensitive(result, dir, entry) ==
    IF entry.IsDir \/ HasPrefix(entry.Name, S(<<".">>)) THEN result
    ELSE IF Ext(entry.Name) \in SupportedExtensions
    THEN [result EXCEPT !.ImagePaths = Append(@, Join(dir, entry.Name))]
    ELSE [result EXCEPT !.SkippedCount = @ + 1]

\* one turn of the loop over the entries
scanEntry(result, dir, entry) ==
    IF entry.IsDir \/ HasPrefix(entry.Name, S(<<".">>)) THEN result
    ELSE IF ToLower(Ext(entry.Name)) \in SupportedExtensions
    THEN [result EXCEPT !.ImagePaths = Append(@, Join(dir, entry.Name))]
    ELSE [result EXCEPT !.SkippedCount = @ + 1]

\* Scan of what dir names: nothing, a file, a directory that cannot be read,
\* or a directory with its entries in the order os.ReadDir gives
Scan(d) ==
    IF d.kind = "missing" THEN [err |-> "cannot access directory"]
    ELSE IF d.kind = "file" THEN [err |-> "is not a directory"]
    ELSE IF d.kind = "unreadable" THEN [err |-> "cannot read directory"]
    ELSE LET result == Loop(LAMBDA acc, i : scanEntry(acc, d.path, d.entries[i]),
                            [ImagePaths |-> <<>>, SkippedCount |-> 0],
                            1, Len(d.entries))
         IN  IF Len(result.ImagePaths) = 0 THEN [err |-> "no image files found"]
             ELSE [err |-> "", ImagePaths |-> result.ImagePaths,
                   SkippedCount |-> result.SkippedCount]

\* the entries a directory may hold, sorted by name as os.ReadDir sorts them
ScanEntries ==
    <<[Name |-> S(<<".","d",".","j","p","g">>), IsDir |-> FALSE],
      [Name |-> S(<<"A",".","J","P","G">>), IsDir |-> FALSE],
      [Name |-> S(<<"a",".","j","p","g">>), IsDir |-> FALSE],
      [Name |-> S(<<"b",".","P","n","g">>), IsDir |-> FALSE],
      [Name |-> S(<<"c",".","t","x","t">>), IsDir |-> FALSE],
      [Name |-> S(<<"f",".","g","i","f">>), IsDir |-> TRUE],
      [Name |-> S(<<"g",".","j","p","g",".","t","x","t">>), IsDir |-> FALSE],
      [Name |-> S(<<"j","p","g">>), IsDir |-> FALSE]>>

\* the entries of ScanEntries at the indexes in I, in order
entriesAt(I) == SelectSeq([i \in DOMAIN ScanEntries |-> IF i \in I THEN <<ScanEntries[i]>> ELSE <<>>],
                          LAMBDA e : e # <<>>)

ScanDirs ==
    {[kind |-> k] : k \in {"missing", "file", "unreadable"}}
    \cup {[kind |-> "directory", path |-> S(<<"/","d">>),
           entries |-> [k \in DOMAIN entriesAt(I) |-> entriesAt(I)[k][1]]] :
            I \in {J \in SUBSET DOMAIN ScanEntries : Cardinality(J) <= MaxEntries}}

ScanCall ==
    /\ pc = "ready"
    /\ \E d \in ScanDirs :
         /\ arg' = d
         /\ ret' = Scan(d)
         /\ err' = ret'.err
    /\ op' = "Scan"
    /\ pc' = "returned"
    /\ UNCHANGED <<tokVars, bpeTokens, tokens, imgVars, clipVars, catVars, runVars>>

ScanReturn ==
    /\ pc = "returned"
    /\ pc' = "ready"
    /\ op' = "none"
    /\ arg' = <<>>
    /\ ret' = <<>>
    /\ err' = ""
    /\ UNCHANGED <<tokVars, bpeTokens, tokens, imgVars, clipVars, catVars, runVars>>

ScanNext ==
    \/ ScanCall
    \/ ScanReturn

\* the scanner needs no tokenizer: the start is the image pipeline's
SpecScan == ImgInit /\ [][ScanNext]_vars

-----------------------------------------------------------------------------
(* CLIPSession: NewCLIPSession, Classify, Destroy *)

BaselineCategory == S(<<"u","n","c","a","t","e","g","o","r","i","z","e","d">>)

baselinePrompt == S(<<"a"," ","p","h","o","t","o">>)

\* a variant that gives the baseline label the template of the categories
classifyPromptsTemplateOnly(categories) ==
    <<categoryPrompt(BaselineCategory)>>
    \o [i \in DOMAIN categories |-> categoryPrompt(categories[i])]

\* the prompts Classify encodes, in the order it appends them
classifyPrompts(categories) ==
    <<baselinePrompt>> \o [i \in DOMAIN categories |-> categoryPrompt(categories[i])]

\* the attention mask loop
buildAttentionMask(ids) == [i \in DOMAIN ids |-> IF ids[i] # 0 THEN 1 ELSE 0]

FlattenedSize(shape) == Loop(LAMBDA acc, i : acc * shape[i], 1, 1, Len(shape))

\* ort.NewTensor(shape, data) fails on a dimension below 1 and on a shape
\* that asks for more elements than the data has
newTensorFails(shape, dataLen) ==
    \/ \E i \in DOMAIN shape : shape[i] < 1
    \/ FlattenedSize(shape) > dataLen

\* float32 1.0 in the fixed-point unit the probabilities are kept in
probScale == 10000

\* math.Exp(d) for the differences v - max the logits produce, in units of
\* 1 / probScale
expScaled(d) ==
    CASE d = 0 -> 10000
      [] d = -1 -> 3679
      [] d = -2 -> 1353
      [] d = -3 -> 498
      [] OTHER -> 0

sumOf(xs) == Loop(LAMBDA acc, i : acc + xs[i], 0, 1, Len(xs))

softmax(ls) ==
    LET max == CHOOSE m \in {ls[i] : i \in DOMAIN ls} : \A i \in DOMAIN ls : ls[i] <= m
        result == [i \in DOMAIN ls |-> expScaled(ls[i] - max)]
        sum == sumOf(result)
    IN  [i \in DOMAIN ls |-> (result[i] * probScale) \div sum]

\* the map Classify fills in label order: a later equal label overwrites
scoreMap(labels, probs) ==
    [l \in {labels[i] : i \in DOMAIN labels} |->
        probs[CHOOSE i \in DOMAIN labels :
                 labels[i] = l /\ \A j \in DOMAIN labels : labels[j] = l => j <= i]]

\* what NewCLIPSession can find on the machine
SessionEnvs == {"ok", "no runtime", "no model file", "bad model",
                "no vocab file", "no merges file"}

ClassifyFiles ==
    {[kind |-> "missing"], [kind |-> "undecodable"],
     [kind |-> "image", rect |-> Rect(0, 0, 3, 2)]}

\* a known word, a symbol whose id is 0 in vocabCLIP, and the baseline label
ClassifyCategories == {S(<<"a">>), S(<<"!">>), BaselineCategory}

ClassifyCategoryLists == SeqsUpTo(ClassifyCategories, MaxCats)

\* the logits the model can answer with
LogitValues == {-1, 0, 1}

\* why creating the output tensors or running the session can fail
RunErrors == {"cannot create output tensor", "inference failed"}

\* what NewCLIPSession does to the session and the tokenizer, and the error
\* it returns, for one state of the machine and one pair of tokenizer files
newSession(env, vf, mf) ==
    IF env \in {"no runtime", "no model file", "bad model"}
    THEN /\ err' = (IF env = "no runtime" THEN "cannot initialize ONNX Runtime"
                    ELSE IF env = "no model file" THEN "file not found"
                    ELSE "cannot create ONNX session")
         /\ UNCHANGED <<encoder, decoder, bpeRanks, sotTokenID, eotTokenID, session>>
    ELSE IF env # "ok" \/ loadTokenizerErr(vf, mf) # ""
    THEN /\ err' = "cannot load tokenizer"
         /\ session' = "destroyed"
         /\ UNCHANGED <<encoder, decoder, bpeRanks, sotTokenID, eotTokenID>>
    ELSE /\ encoder' = vf.map
         /\ bpeRanks' = parseMerges(mf.data)
         /\ decoder' \in decodersOf(vf.map)
         /\ sotTokenID' = mapGetOrZero(vf.map, sotToken)
         /\ eotTokenID' = mapGetOrZero(vf.map, eotToken)
         /\ session' = "open"
         /\ err' = ""

NewCLIPSession ==
    /\ pc = "start"
    /\ op' = "NewCLIPSession"
    /\ UNCHANGED <<byteEncoder, arg, bpeTokens, tokens, ret, imgVars,
                   allLabels, promptTokens, tokenIDs, attentionMask, logits, scores,
                   catVars, runVars>>
    /\ \E env \in SessionEnvs, vf \in VocabFiles, mf \in MergesFiles :
         /\ newSession(env, vf, mf)
         /\ pc' = (IF err' = "" THEN "returned" ELSE "failed")

Classify ==
    /\ pc = "ready"
    /\ session = "open"
    /\ op' = "Classify"
    /\ pc' = "returned"
    /\ UNCHANGED <<tokVars, session, bpeTokens, tokens, ret, catVars, runVars>>
    /\ \E imagePath \in ClassifyFiles, categories \in ClassifyCategoryLists :
         LET pixelValues == PreprocessImage(imagePath)
             labels == <<BaselineCategory>> \o categories
             numLabels == Len(labels)
             prompts == classifyPrompts(categories)
             toks == [i \in DOMAIN prompts |->
                         encodeTokens(encoder, sotTokenID, eotTokenID,
                                      encodeSymbols(byteEncoder, bpeRanks, prompts[i]))]
             ids == Flatten([i \in DOMAIN toks |-> padOrTruncate(toks[i])])
             mask == buildAttentionMask(ids)
             tensorErr ==
                 IF newTensorFails(<<numLabels, contextLen>>, Len(ids))
                 THEN "cannot create input_ids tensor"
                 ELSE IF newTensorFails(<<1, 3, clipImageSize, clipImageSize>>,
                                        pixelValues.tensorLen)
                 THEN "cannot create pixel_values tensor"
                 ELSE IF newTensorFails(<<numLabels, contextLen>>, Len(mask))
                 THEN "cannot create attention_mask tensor"
                 ELSE ""
         IN  /\ arg' = [imagePath |-> imagePath, categories |-> categories]
             /\ img' = pixelValues.img
             /\ cropped' = pixelValues.cropped
             /\ resized' = pixelValues.resized
             /\ tensorLen' = pixelValues.tensorLen
             /\ IF pixelValues.err # ""
                THEN /\ err' = "cannot preprocess image"
                     /\ UNCHANGED <<allLabels, promptTokens, tokenIDs, attentionMask,
                                    logits, scores>>
                ELSE /\ allLabels' = labels
                     /\ promptTokens' = toks
                     /\ tokenIDs' = ids
                     /\ attentionMask' = mask
                     /\ IF tensorErr # ""
                        THEN /\ err' = tensorErr
                             /\ UNCHANGED <<logits, scores>>
                        ELSE \/ /\ err' \in RunErrors
                                /\ UNCHANGED <<logits, scores>>
                             \/ /\ err' = ""
                                /\ logits' \in [1..numLabels -> LogitValues]
                                /\ scores' = scoreMap(labels, softmax(logits'))

Destroy ==
    /\ pc = "ready"
    /\ session = "open"
    /\ session' = "destroyed"
    /\ op' = "Destroy"
    /\ pc' = "closed"
    /\ UNCHANGED <<tokVars, arg, bpeTokens, tokens, ret, err, imgVars,
                   allLabels, promptTokens, tokenIDs, attentionMask, logits, scores,
                   catVars, runVars>>

ClipReturn ==
    /\ pc = "returned"
    /\ pc' = "ready"
    /\ op' = "none"
    /\ arg' = <<>>
    /\ err' = ""
    /\ img' = noImage
    /\ cropped' = noImage
    /\ resized' = noImage
    /\ tensorLen' = 0
    /\ allLabels' = <<>>
    /\ promptTokens' = <<>>
    /\ tokenIDs' = <<>>
    /\ attentionMask' = <<>>
    /\ logits' = <<>>
    /\ scores' = <<>>
    /\ UNCHANGED <<tokVars, session, bpeTokens, tokens, ret, catVars, runVars>>

ClipNext ==
    \/ NewCLIPSession
    \/ Classify
    \/ Destroy
    \/ ClipReturn

SpecClip == Init /\ [][ClipNext]_vars

-----------------------------------------------------------------------------
(* categorizer.Categorize *)

\* the orders in which a range over a map with these keys can visit them
Orders(keys) ==
    {f \in [1..Cardinality(keys) -> keys] : \A a, b \in DOMAIN f : f[a] = f[b] => a = b}

\* what clip.Classify gives Categorize: an error, or the score map of the logits
classifyResult(cs, outcome) ==
    IF outcome.err # "" THEN [err |-> outcome.err, scores |-> <<>>]
    ELSE [err |-> "", scores |-> scoreMap(<<BaselineCategory>> \o cs, softmax(outcome.logits))]

\* the loop that finds the best real category, visiting the keys in this order
bestCategory(scoresMap, order) ==
    Loop(LAMBDA acc, k :
             IF order[k] = BaselineCategory THEN acc
             ELSE IF scoresMap[order[k]] > acc.bestScore
             THEN [bestCat |-> order[k], bestScore |-> scoresMap[order[k]]]
             ELSE acc,
         [bestCat |-> <<>>, bestScore |-> 0], 1, Len(order))

\* Result{Path: imgPath, Skipped: true}
skipResult(imgPath) ==
    [Path |-> imgPath, Category |-> <<>>, Confidence |-> 0, Skipped |-> TRUE]

\* a variant that skips only when the baseline scored strictly higher
decideBaselineStrict(imgPath, scoresMap, order, thr) ==
    LET best == bestCategory(scoresMap, order)
        baselineScore == mapGetOrZero(scoresMap, BaselineCategory)
    IN  IF baselineScore > best.bestScore THEN skipResult(imgPath)
        ELSE IF best.bestScore < thr THEN skipResult(imgPath)
        ELSE [Path |-> imgPath, Category |-> best.bestCat,
              Confidence |-> best.bestScore, Skipped |-> FALSE]

\* a variant that also skips a best score equal to the threshold
decideThresholdStrict(imgPath, scoresMap, order, thr) ==
    LET best == bestCategory(scoresMap, order)
        baselineScore == mapGetOrZero(scoresMap, BaselineCategory)
    IN  IF baselineScore >= best.bestScore THEN skipResult(imgPath)
        ELSE IF best.bestScore <= thr THEN skipResult(imgPath)
        ELSE [Path |-> imgPath, Category |-> best.bestCat,
              Confidence |-> best.bestScore, Skipped |-> FALSE]

\* the decision for one image whose Classify succeeded
decide(imgPath, scoresMap, order, thr) ==
    LET best == bestCategory(scoresMap, order)
        baselineScore == mapGetOrZero(scoresMap, BaselineCategory)
    IN  IF baselineScore >= best.bestScore THEN skipResult(imgPath)
        ELSE IF best.bestScore < thr THEN skipResult(imgPath)
        ELSE [Path |-> imgPath, Category |-> best.bestCat,
              Confidence |-> best.bestScore, Skipped |-> FALSE]

ImagePathNames == <<S(<<"/", "a">>), S(<<"/", "1">>), S(<<"/", "s">>), S(<<"/", "d">>)>>

\* the path lists: the first n names, for every n up to MaxImages
ImagePathLists == {SubSeq(ImagePathNames, 1, n) : n \in 0..MaxImages}

CatCategoryLists ==
    {<<>>, <<S(<<"a">>)>>, <<S(<<"a">>), S(<<"!">>)>>, <<BaselineCategory, S(<<"a">>)>>}

\* thresholds: negative, zero, a score that logits produce, above one
Thresholds == {-probScale, 0, softmax(<<0, 1>>)[2], probScale + 1}

CatLogitValues == {0, 1}

\* what Classify can answer for one image and these categories; softmax
\* subtracts the maximum, so logits that differ by a shift give the same
\* scores, and one vector of each such family is enough
ClassifyOutcomes(cs) ==
    {[err |-> "cannot preprocess image"], [err |-> "inference failed"]}
    \cup {[err |-> "", logits |-> l] :
            l \in {v \in [1..(Len(cs) + 1) -> CatLogitValues] : \E k \in DOMAIN v : v[k] = 0}}

CatInit ==
    /\ pc = "ready"
    /\ encoder = vocabCLIP
    /\ decoder \in decodersOf(vocabCLIP)
    /\ bpeRanks = parseMerges(mergesCLIP)
    /\ sotTokenID = mapGetOrZero(vocabCLIP, sotToken)
    /\ eotTokenID = mapGetOrZero(vocabCLIP, eotToken)
    /\ byteEncoder = byteEncoderInit
    /\ op = "none"
    /\ arg = <<>>
    /\ bpeTokens = <<>>
    /\ tokens = <<>>
    /\ ret = <<>>
    /\ err = ""
    /\ ImgIdle
    /\ session = "open"
    /\ allLabels = <<>>
    /\ promptTokens = <<>>
    /\ tokenIDs = <<>>
    /\ attentionMask = <<>>
    /\ logits = <<>>
    /\ scores = <<>>
    /\ CatIdle
    /\ RunIdle

\* a variant without the check for an empty category list
CategorizeCallUnchecked ==
    /\ catPc = "idle"
    /\ runPc = "idle"
    /\ session = "open"
    /\ \E paths \in ImagePathLists, cs \in CatCategoryLists, thr \in Thresholds,
          fn \in BOOLEAN :
         /\ imagePaths' = paths
         /\ cats' = cs
         /\ threshold' = thr
         /\ progressFn' = fn
    /\ catErr' = ""
    /\ catPc' = "loop"
    /\ loopIndex' = 0
    /\ results' = <<>>
    /\ events' = <<>>
    /\ backend' = <<>>
    /\ UNCHANGED <<pc, tokVars, op, arg, bpeTokens, tokens, ret, err, imgVars, clipVars,
                   firstRun, runVars>>

\* Categorize is called: the check of the categories and the empty result list
CategorizeCall ==
    /\ catPc = "idle"
    /\ runPc = "idle"
    /\ session = "open"
    /\ \E paths \in ImagePathLists, cs \in CatCategoryLists, thr \in Thresholds,
          fn \in BOOLEAN :
         /\ imagePaths' = paths
         /\ cats' = cs
         /\ threshold' = thr
         /\ progressFn' = fn
    /\ IF Len(cats') = 0
       THEN /\ catErr' = "no categories provided"
            /\ catPc' = "done"
       ELSE /\ catErr' = ""
            /\ catPc' = "loop"
    /\ loopIndex' = 0
    /\ results' = <<>>
    /\ events' = <<>>
    /\ backend' = <<>>
    /\ UNCHANGED <<pc, tokVars, op, arg, bpeTokens, tokens, ret, err, imgVars, clipVars,
                   firstRun, runVars>>

\* the head of the loop: the progress callback for the next image, or the
\* return of the results after the last one
CategorizeHead ==
    /\ catPc = "loop"
    /\ IF loopIndex < Len(imagePaths)
       THEN /\ events' = (IF progressFn
                          THEN Append(events, <<"progress", loopIndex + 1, Len(imagePaths)>>)
                          ELSE events)
            /\ catPc' = "classify"
       ELSE /\ catPc' = "done"
            /\ UNCHANGED events
    /\ UNCHANGED <<pc, tokVars, op, arg, bpeTokens, tokens, ret, err, imgVars, clipVars,
                   imagePaths, cats, threshold, progressFn, loopIndex, results, catErr,
                   backend, firstRun, runVars>>

\* a variant that gives up the whole batch when Classify fails
CategorizeImageAbort ==
    /\ catPc = "classify"
    /\ LET imgPath == imagePaths[loopIndex + 1] IN
       \E outcome \in (IF Len(firstRun) > 0 THEN {backend[loopIndex + 1]}
                       ELSE ClassifyOutcomes(cats)) :
         LET res == classifyResult(cats, outcome) IN
         /\ events' = Append(events, <<"Classify", imgPath>>)
         /\ backend' = (IF Len(firstRun) > 0 THEN backend ELSE Append(backend, outcome))
         /\ IF res.err # ""
            THEN /\ results' = <<>>
                 /\ catErr' = res.err
                 /\ catPc' = "done"
            ELSE /\ \E order \in Orders(DOMAIN res.scores) :
                      results' = Append(results, decide(imgPath, res.scores, order, threshold))
                 /\ catPc' = "loop"
                 /\ UNCHANGED catErr
    /\ loopIndex' = loopIndex + 1
    /\ UNCHANGED <<pc, tokVars, op, arg, bpeTokens, tokens, ret, err, imgVars, clipVars,
                   imagePaths, cats, threshold, progressFn, firstRun, runVars>>

\* a variant that calls Classify a second time when the first call fails
CategorizeImageRetry ==
    /\ catPc = "classify"
    /\ LET imgPath == imagePaths[loopIndex + 1] IN
       \E outcome \in (IF Len(firstRun) > 0 THEN {backend[loopIndex + 1]}
                       ELSE ClassifyOutcomes(cats)) :
         LET res == classifyResult(cats, outcome) IN
         /\ backend' = (IF Len(firstRun) > 0 THEN backend ELSE Append(backend, outcome))
         /\ IF res.err # ""
            THEN /\ events' = events \o <<(<<"Classify", imgPath>>), (<<"Classify", imgPath>>)>>
                 /\ results' = Append(results, skipResult(imgPath))
            ELSE /\ events' = Append(events, <<"Classify", imgPath>>)
                 /\ \E order \in Orders(DOMAIN res.scores) :
                      results' = Append(results, decide(imgPath, res.scores, order, threshold))
    /\ loopIndex' = loopIndex + 1
    /\ catPc' = "loop"
    /\ UNCHANGED <<pc, tokVars, op, arg, bpeTokens, tokens, ret, err, imgVars, clipVars,
                   imagePaths, cats, threshold, progressFn, catErr, firstRun, runVars>>

\* the body of the loop for one image: Classify, then the decision, with the
\* range over the score map in any order
CategorizeImage ==
    /\ catPc = "classify"
    /\ LET imgPath == imagePaths[loopIndex + 1] IN
       \E outcome \in (IF Len(firstRun) > 0 THEN {backend[loopIndex + 1]}
                       ELSE ClassifyOutcomes(cats)) :
         LET res == classifyResult(cats, outcome) IN
         /\ events' = Append(events, <<"Classify", imgPath>>)
         /\ backend' = (IF Len(firstRun) > 0 THEN backend ELSE Append(backend, outcome))
         /\ IF res.err # ""
            THEN results' = Append(results, skipResult(imgPath))
            ELSE \E order \in Orders(DOMAIN res.scores) :
                   results' = Append(results, decide(imgPath, res.scores, order, threshold))
    /\ loopIndex' = loopIndex + 1
    /\ catPc' = "loop"
    /\ UNCHANGED <<pc, tokVars, op, arg, bpeTokens, tokens, ret, err, imgVars, clipVars,
                   imagePaths, cats, threshold, progressFn, catErr, firstRun, runVars>>

\* Categorize is called again on the same paths and categories, with the same
\* files and the same model answers, and a threshold that is no lower
CategorizeAgain ==
    /\ catPc = "done"
    /\ runPc = "idle"
    /\ catErr = ""
    /\ Len(firstRun) = 0
    /\ firstRun' = <<[threshold |-> threshold, results |-> results]>>
    /\ \E thr \in Thresholds :
         /\ thr >= threshold
         /\ threshold' = thr
    /\ catPc' = "loop"
    /\ loopIndex' = 0
    /\ results' = <<>>
    /\ events' = <<>>
    /\ UNCHANGED <<pc, tokVars, op, arg, bpeTokens, tokens, ret, err, imgVars, clipVars,
                   imagePaths, cats, progressFn, catErr, backend, runVars>>

\* the caller is done with the results
CategorizeReturn ==
    /\ catPc = "done"
    /\ runPc = "idle"
    /\ catPc' = "idle"
    /\ imagePaths' = <<>>
    /\ cats' = <<>>
    /\ threshold' = 0
    /\ progressFn' = FALSE
    /\ loopIndex' = 0
    /\ results' = <<>>
    /\ catErr' = ""
    /\ events' = <<>>
    /\ backend' = <<>>
    /\ firstRun' = <<>>
    /\ UNCHANGED <<pc, tokVars, op, arg, bpeTokens, tokens, ret, err, imgVars, clipVars,
                   runVars>>

CatNext ==
    \/ CategorizeCall
    \/ CategorizeHead
    \/ CategorizeImage
    \/ CategorizeAgain
    \/ CategorizeReturn

SpecCat == CatInit /\ [][CatNext]_vars

-----------------------------------------------------------------------------
(* The command line run *)

\* strings.Split(s, ",")
splitComma(s) ==
    LET st == Loop(LAMBDA acc, k :
                       IF s[k] = 44 THEN [out |-> Append(acc.out, acc.cur), cur |-> <<>>]
                       ELSE [out |-> acc.out, cur |-> Append(acc.cur, s[k])],
                   [out |-> <<>>, cur |-> <<>>], 1, Len(s))
    IN  Append(st.out, st.cur)

\* the categories of the --categories flag: split, trimmed, the empty dropped
cliCategories(categoriesFlag) ==
    IF categoriesFlag = <<>> THEN <<>>
    ELSE LET parts == splitComma(categoriesFlag)
             trimmed == [k \in DOMAIN parts |-> TrimSpace(parts[k])]
         IN  SelectSeq(trimmed, LAMBDA c : c # <<>>)

CategoryFlags ==
    {<<>>, S(<<"a">>), S(<<" ", ",", " ">>), S(<<"a", ",", " ", "!", " ", ",">>)}

\* what categories.Resolve finds when the flag gave no category: the custom
\* file cannot be read, or the custom list, or the built-in list
ResolveOutcomes ==
    {[err |-> "cannot resolve categories"]}
    \cup {[err |-> "", list |-> l] : l \in {<<S(<<"a">>)>>, <<BaselineCategory, S(<<"a">>)>>}}

\* what scanner.Scan returns: an error, or at least one image path
ScanOutcomes ==
    {[err |-> e] : e \in {"cannot access directory", "is not a directory",
                          "cannot read directory", "no image files found"}}
    \cup {[err |-> "", ImagePaths |-> l] : l \in ImagePathLists \ {<<>>}}

\* the files the models directory holds for the tokenizer
RunVocabFiles == {[kind |-> "malformed"], [kind |-> "object", map |-> vocabCLIP]}
RunMergesFiles == {[kind |-> "unreadable"], [kind |-> "text", data |-> mergesCLIP]}

\* the categories of the results that were not skipped
groupKeys(rs) == {rs[k].Category : k \in {j \in DOMAIN rs : ~rs[j].Skipped}}

\* GroupByCategory(results)[category]
groupItems(rs, category) == SelectSeq(rs, LAMBDA r : ~r.Skipped /\ r.Category = category)

-----------------------------------------------------------------------------
(* The file system, and mover.MoveFiles on it *)

\* os.Stat(path) finds something
exists(f, path) == path \in DOMAIN f.files \/ path \in f.dirs

\* filepath.Base of a clean path: what follows the last separator
Base(path) ==
    IF \E i \in DOMAIN path : path[i] = Ord("/")
    THEN LET i == CHOOSE j \in DOMAIN path :
                      path[j] = Ord("/") /\ \A k \in (j + 1)..Len(path) : path[k] # Ord("/")
         IN  SubSeq(path, i + 1, Len(path))
    ELSE path

\* %d of a number that is not negative
RECURSIVE Itoa(_)
Itoa(n) == IF n < 10 THEN <<48 + n>> ELSE Itoa(n \div 10) \o <<48 + (n % 10)>>

\* a variant that takes the destination as it is
resolveConflictKeep(f, destPath, dry) == destPath

\* resolveConflict: the loop ends at the first candidate that does not exist,
\* which is among the first (number of paths that exist) + 1
resolveConflict(f, destPath, dry) ==
    IF dry THEN destPath
    ELSE IF ~exists(f, destPath) THEN destPath
    ELSE LET ext == Ext(Base(destPath))
             base == SubSeq(destPath, 1, Len(destPath) - Len(ext))
             candidate(i) == base \o S(<<"_">>) \o Itoa(i) \o ext
             most == Cardinality(DOMAIN f.files) + Cardinality(f.dirs) + 1
         IN  candidate(Min({i \in 1..most : ~exists(f, candidate(i))}))

\* os.Rename(oldPath, newPath) of a file that exists
rename(f, oldPath, newPath) ==
    [f EXCEPT !.files = [q \in (DOMAIN f.files \ {oldPath}) \cup {newPath} |->
                            IF q = newPath THEN f.files[oldPath] ELSE f.files[q]]]

\* a variant of the loop body that renames in a dry run as well
moveItemAlways(st, catDir, category, item, dry, failAt) ==
    IF st.err # "" THEN st
    ELSE LET destPath == resolveConflict(st.fs, Join(catDir, Base(item.Path)), dry)
             moved == [SourcePath |-> item.Path, DestPath |-> destPath, Category |-> category]
         IN  IF st.n + 1 = failAt \/ item.Path \notin DOMAIN st.fs.files
             THEN [st EXCEPT !.err = "cannot move", !.n = @ + 1]
             ELSE [st EXCEPT !.fs = rename(@, item.Path, destPath), !.n = @ + 1,
                             !.moveResults = Append(@, moved)]

\* the body of the loop over the items of one category; n counts the calls
\* to the file system, and the call numbered failAt fails
moveItem(st, catDir, category, item, dry, failAt) ==
    IF st.err # "" THEN st
    ELSE LET destPath == resolveConflict(st.fs, Join(catDir, Base(item.Path)), dry)
             moved == [SourcePath |-> item.Path, DestPath |-> destPath, Category |-> category]
         IN  IF dry THEN [st EXCEPT !.moveResults = Append(@, moved)]
             ELSE IF st.n + 1 = failAt \/ item.Path \notin DOMAIN st.fs.files
             THEN [st EXCEPT !.err = "cannot move", !.n = @ + 1]
             ELSE [st EXCEPT !.fs = rename(@, item.Path, destPath), !.n = @ + 1,
                             !.moveResults = Append(@, moved)]

\* the body of the loop over the groups: the folder, then the items
moveGroup(st, baseDir, rs, category, dry, failAt) ==
    IF st.err # "" THEN st
    ELSE LET catDir == Join(baseDir, category)
             items == groupItems(rs, category)
             made == IF dry THEN st
                     ELSE IF st.n + 1 = failAt \/ catDir \in DOMAIN st.fs.files
                     THEN [st EXCEPT !.err = "cannot create category folder", !.n = @ + 1]
                     ELSE [st EXCEPT !.fs.dirs = @ \cup {catDir}, !.n = @ + 1]
         IN  Loop(LAMBDA acc, k : moveItem(acc, catDir, category, items[k], dry, failAt),
                  made, 1, Len(items))

\* MoveFiles, the groups visited in this order
MoveFiles(f, baseDir, rs, dry, order, failAt) ==
    LET end == Loop(LAMBDA acc, g : moveGroup(acc, baseDir, rs, order[g], dry, failAt),
                    [fs |-> f, moveResults |-> <<>>, err |-> "", n |-> 0],
                    1, Len(order))
    IN  [fs |-> end.fs, err |-> end.err,
         moveResults |-> IF end.err # "" THEN <<>> ELSE end.moveResults]

\* the folders MoveFiles makes and the files it renames, in the order it
\* does so when it visits the groups in this order
moveOps(rs, order) ==
    Flatten([g \in DOMAIN order |->
        <<(<<"MkdirAll", order[g]>>)>>
        \o [k \in DOMAIN groupItems(rs, order[g]) |->
               <<"Rename", groupItems(rs, order[g])[k].Path, order[g]>>]])

\* the MoveResults for the groups in this order; the destination path is not
\* kept here
moveResultsOf(rs, order) ==
    Flatten([g \in DOMAIN order |->
        [k \in DOMAIN groupItems(rs, order[g]) |->
            [SourcePath |-> groupItems(rs, order[g])[k].Path, Category |-> order[g]]]])

\* run: the directory is checked
runValidate ==
    /\ runPc = "idle"
    /\ \E dir \in {"missing", "file", "directory"}, dry \in BOOLEAN, confidence \in Thresholds :
         /\ dryRun' = dry
         /\ threshold' = confidence
         /\ IF dir = "directory"
            THEN runPc' = "resolve" /\ runErr' = ""
            ELSE /\ runPc' = "returned"
                 /\ runErr' = (IF dir = "missing" THEN "cannot access directory"
                               ELSE "is not a directory")
    /\ UNCHANGED <<pc, tokVars, op, arg, bpeTokens, tokens, ret, err, imgVars, clipVars,
                   catPc, imagePaths, cats, progressFn, loopIndex, results, catErr,
                   events, backend, firstRun, moveResults, fs, download>>

\* run: the categories are resolved, flag before custom file before built-in
runResolve ==
    /\ runPc = "resolve"
    /\ \E categoriesFlag \in CategoryFlags :
         LET cliCats == cliCategories(categoriesFlag) IN
         IF Len(cliCats) > 0
         THEN cats' = cliCats /\ runPc' = "scan" /\ UNCHANGED runErr
         ELSE \E found \in ResolveOutcomes :
                IF found.err # ""
                THEN runErr' = found.err /\ runPc' = "returned" /\ UNCHANGED cats
                ELSE cats' = found.list /\ runPc' = "scan" /\ UNCHANGED runErr
    /\ UNCHANGED <<pc, tokVars, op, arg, bpeTokens, tokens, ret, err, imgVars, clipVars,
                   catPc, imagePaths, threshold, progressFn, loopIndex, results, catErr,
                   events, backend, firstRun, dryRun, moveResults, fs, download>>

\* run: the directory is scanned
runScan ==
    /\ runPc = "scan"
    /\ \E scanResult \in ScanOutcomes :
         IF scanResult.err # ""
         THEN runErr' = scanResult.err /\ runPc' = "returned" /\ UNCHANGED imagePaths
         ELSE imagePaths' = scanResult.ImagePaths /\ runPc' = "models" /\ UNCHANGED runErr
    /\ UNCHANGED <<pc, tokVars, op, arg, bpeTokens, tokens, ret, err, imgVars, clipVars,
                   catPc, cats, threshold, progressFn, loopIndex, results, catErr,
                   events, backend, firstRun, dryRun, moveResults, fs, download>>

\* run: the model files are made sure of
runEnsureModels ==
    /\ runPc = "models"
    /\ \E ensured \in BOOLEAN :
         IF ensured
         THEN runPc' = "session" /\ UNCHANGED runErr
         ELSE runErr' = "model setup failed" /\ runPc' = "returned"
    /\ UNCHANGED <<pc, tokVars, op, arg, bpeTokens, tokens, ret, err, imgVars, clipVars,
                   catVars, dryRun, moveResults, fs, download>>

\* a variant that goes on to categorize after the session failed to load
runNewCLIPSessionGoesOn ==
    /\ runPc = "session"
    /\ \E env \in SessionEnvs, vf \in RunVocabFiles, mf \in RunMergesFiles :
         /\ newSession(env, vf, mf)
         /\ runPc' = "categorize"
         /\ runErr' = (IF err' # "" THEN "cannot load CLIP model" ELSE runErr)
    /\ UNCHANGED <<pc, byteEncoder, op, arg, bpeTokens, tokens, ret, imgVars,
                   allLabels, promptTokens, tokenIDs, attentionMask, logits, scores,
                   catVars, dryRun, moveResults, fs, download>>

\* run: the CLIP session is created
runNewCLIPSession ==
    /\ runPc = "session"
    /\ \E env \in SessionEnvs, vf \in RunVocabFiles, mf \in RunMergesFiles :
         /\ newSession(env, vf, mf)
         /\ IF err' # ""
            THEN runErr' = "cannot load CLIP model" /\ runPc' = "returned"
            ELSE runPc' = "categorize" /\ UNCHANGED runErr
    /\ UNCHANGED <<pc, byteEncoder, op, arg, bpeTokens, tokens, ret, imgVars,
                   allLabels, promptTokens, tokenIDs, attentionMask, logits, scores,
                   catVars, dryRun, moveResults, fs, download>>

\* run: Categorize is called with the scanned paths, the categories, the
\* confidence and a progress callback
runCategorize ==
    /\ runPc = "categorize"
    /\ catPc = "idle"
    /\ progressFn' = TRUE
    /\ IF Len(cats) = 0
       THEN catErr' = "no categories provided" /\ catPc' = "done"
       ELSE catErr' = "" /\ catPc' = "loop"
    /\ loopIndex' = 0
    /\ results' = <<>>
    /\ UNCHANGED <<pc, tokVars, op, arg, bpeTokens, tokens, ret, err, imgVars, clipVars,
                   imagePaths, cats, threshold, events, backend, firstRun, runVars>>

\* run: after Categorize, the files are moved, the report is printed and the
\* session is destroyed on the way out
runMoveFiles ==
    /\ runPc = "categorize"
    /\ catPc = "done"
    /\ runPc' = "returned"
    /\ session' = "destroyed"
    /\ IF catErr # ""
       THEN runErr' = catErr /\ UNCHANGED <<events, moveResults>>
       ELSE \E order \in Orders(groupKeys(results)) :
              LET ops == moveOps(results, order) IN
              IF dryRun
              THEN /\ moveResults' = moveResultsOf(results, order)
                   /\ UNCHANGED <<events, runErr>>
              ELSE \E failAt \in 0..Len(ops) :
                     IF failAt = 0
                     THEN /\ events' = events \o ops
                          /\ moveResults' = moveResultsOf(results, order)
                          /\ UNCHANGED runErr
                     ELSE /\ events' = events \o SubSeq(ops, 1, failAt - 1)
                          /\ runErr' = (IF ops[failAt][1] = "MkdirAll"
                                        THEN "cannot create category folder"
                                        ELSE "cannot move")
                          /\ UNCHANGED moveResults
    /\ UNCHANGED <<pc, tokVars, op, arg, bpeTokens, tokens, ret, err, imgVars,
                   allLabels, promptTokens, tokenIDs, attentionMask, logits, scores,
                   catPc, imagePaths, cats, threshold, progressFn, loopIndex, results,
                   catErr, backend, firstRun, dryRun, fs, download>>

RunNext ==
    \/ runValidate
    \/ runResolve
    \/ runScan
    \/ runEnsureModels
    \/ runNewCLIPSession
    \/ runCategorize
    \/ CategorizeHead
    \/ CategorizeImage
    \/ runMoveFiles

SpecRun == Init /\ [][RunNext]_vars


-----------------------------------------------------------------------------
(* mover.MoveFiles as an operation on the file system *)

moveBaseDir == S(<<"/","d">>)

\* the images the results name: two with the same base name, one without extension
MoveSources ==
    (S(<<"/","d","/","a",".","j","p","g">>) :> 1)
    @@ (S(<<"/","e","/","a",".","j","p","g">>) :> 2)
    @@ (S(<<"/","d","/","b">>) :> 3)

\* files that may be in the category folders before the call
MoveOlder ==
    (S(<<"/","d","/","c","/","a",".","j","p","g">>) :> 7)
    @@ (S(<<"/","d","/","c","/","a","_","1",".","j","p","g">>) :> 8)
    @@ (S(<<"/","d","/","s","/","b">>) :> 9)

\* filepath.Dir of a clean path below the root
Dir(path) == SubSeq(path, 1, Len(path) - Len(Base(path)) - 1)

MoveFileSystems ==
    {[files |-> [q \in DOMAIN MoveSources \cup older |->
                    IF q \in older THEN MoveOlder[q] ELSE MoveSources[q]],
      dirs |-> {moveBaseDir, S(<<"/","e">>)} \cup {Dir(q) : q \in older}] :
        older \in SUBSET DOMAIN MoveOlder}

\* what Categorize can have returned for these images
MoveResultValues ==
    {skipResult(S(<<"/","d","/","a",".","j","p","g">>))}
    \cup {[Path |-> q, Category |-> c, Confidence |-> probScale, Skipped |-> FALSE] :
            q \in DOMAIN MoveSources, c \in {S(<<"c">>), S(<<"s">>)}}

MoveResultLists == SeqsUpTo(MoveResultValues, MaxImages)

\* the images are scanned and categorized, the category folders may hold
\* files of earlier runs
MoveInit ==
    /\ pc = "ready"
    /\ encoder = <<>>
    /\ decoder = <<>>
    /\ bpeRanks = <<>>
    /\ sotTokenID = 0
    /\ eotTokenID = 0
    /\ byteEncoder = byteEncoderInit
    /\ op = "none"
    /\ arg = <<>>
    /\ bpeTokens = <<>>
    /\ tokens = <<>>
    /\ ret = <<>>
    /\ err = ""
    /\ ImgIdle
    /\ ClipIdle
    /\ CatIdle
    /\ runPc = "idle"
    /\ runErr = ""
    /\ dryRun = FALSE
    /\ moveResults = <<>>
    /\ fs \in MoveFileSystems
    /\ download = noDownload

\* MoveFiles(baseDir, results, dryRun): the map of groups is visited in some
\* order, and a call to the file system may fail
MoveFilesCall ==
    /\ pc = "ready"
    /\ \E rs \in MoveResultLists, dry \in BOOLEAN :
         \E order \in Orders(groupKeys(rs)) :
            \E failAt \in 0..(IF dry THEN 0
                              ELSE Len(order) + Cardinality({k \in DOMAIN rs : ~rs[k].Skipped})) :
               LET out == MoveFiles(fs, moveBaseDir, rs, dry, order, failAt) IN
               /\ results' = rs
               /\ dryRun' = dry
               /\ fs' = out.fs
               /\ moveResults' = out.moveResults
               /\ err' = out.err
    /\ arg' = moveBaseDir
    /\ op' = "MoveFiles"
    /\ pc' = "returned"
    /\ UNCHANGED <<tokVars, bpeTokens, tokens, ret, imgVars, clipVars,
                   catPc, imagePaths, cats, threshold, progressFn, loopIndex, catErr,
                   events, backend, firstRun, runPc, runErr, download>>

\* the caller reports and exits
MoveFilesReturn ==
    /\ pc = "returned"
    /\ pc' = "exited"
    /\ UNCHANGED <<tokVars, op, arg, bpeTokens, tokens, ret, err, imgVars, clipVars,
                   catVars, runVars>>

MoveNext ==
    \/ MoveFilesCall
    \/ MoveFilesReturn

SpecMove == MoveInit /\ [][MoveNext]_vars


-----------------------------------------------------------------------------
(* model.EnsureModels and downloadFile, one call to the outside at a time *)

\* ModelsDir()
modelsDir == S(<<"/","m">>)

\* the Name of every entry of RequiredFiles
RequiredFiles ==
    <<S(<<"m","o","d","e","l",".","o","n","n","x">>),
      S(<<"v","o","c","a","b",".","j","s","o","n">>),
      S(<<"m","e","r","g","e","s",".","t","x","t">>)>>

\* filepath.Join(dir, m.Name)
modelPath(m) == Join(modelsDir, RequiredFiles[m])

\* destPath + ".tmp"
tmpPathOf(destPath) == destPath \o S(<<".","t","m","p">>)

\* hex.EncodeToString(hasher.Sum(nil)): different content, different digest
sha256(content) == <<"sha256", content>>

\* the body of a response, one element for each Read that returns bytes: the
\* whole file, or a shorter body
wholeBody == [k \in 1..MaxChunks |-> k]

Bodies == {SubSeq(wholeBody, 1, n) : n \in 0..MaxChunks}

\* ModelFile.SHA256: empty, or the digest of the whole file
ExpectedHashes == {<<>>, sha256(wholeBody)}

\* the content of a model file that an earlier run left
olderContent == <<0>>

\* the models directory before the call: not there, or with some of the files
DownloadFileSystems ==
    {noFiles}
    \cup {[files |-> [q \in {modelPath(m) : m \in have} |-> olderContent],
           dirs |-> {modelsDir}] : have \in SUBSET DOMAIN RequiredFiles}

\* os.Remove of each of these paths
removeAll(f, paths) == [f EXCEPT !.files = [q \in DOMAIN @ \ paths |-> @[q]]]

DownloadInit ==
    /\ pc = "ready"
    /\ encoder = <<>>
    /\ decoder = <<>>
    /\ bpeRanks = <<>>
    /\ sotTokenID = 0
    /\ eotTokenID = 0
    /\ byteEncoder = byteEncoderInit
    /\ op = "none"
    /\ arg = <<>>
    /\ bpeTokens = <<>>
    /\ tokens = <<>>
    /\ ret = <<>>
    /\ err = ""
    /\ ImgIdle
    /\ ClipIdle
    /\ CatIdle
    /\ runPc = "idle"
    /\ runErr = ""
    /\ dryRun = FALSE
    /\ moveResults = <<>>
    /\ fs \in DownloadFileSystems
    /\ download = noDownload

\* EnsureModels up to its loop: ModelsDir and os.MkdirAll
EnsureModelsCall ==
    /\ pc = "ready"
    /\ op' = "EnsureModels"
    /\ \E outcome \in {"no home", "no directory", "ok"} :
         IF outcome = "no home"
         THEN /\ err' = "cannot determine home directory"
              /\ pc' = "returned"
              /\ UNCHANGED <<fs, download>>
         ELSE IF outcome = "no directory"
         THEN /\ err' = "cannot create models directory"
              /\ pc' = "returned"
              /\ UNCHANGED <<fs, download>>
         ELSE /\ fs' = [fs EXCEPT !.dirs = @ \cup {modelsDir}]
              /\ download' = [noDownload EXCEPT !.m = 1]
              /\ pc' = "stat"
              /\ UNCHANGED err
    /\ UNCHANGED <<tokVars, arg, bpeTokens, tokens, ret, imgVars, clipVars, catVars,
                   runPc, runErr, dryRun, moveResults>>

\* the head of the loop over RequiredFiles: the end, a file that os.Stat
\* finds, or a file to download
ensureStat ==
    /\ pc = "stat"
    /\ IF download.m > Len(RequiredFiles)
       THEN pc' = "returned" /\ err' = "" /\ UNCHANGED download
       ELSE IF exists(fs, modelPath(download.m))
       THEN pc' = "stat" /\ download' = [noDownload EXCEPT !.m = download.m + 1] /\ UNCHANGED err
       ELSE pc' = "get" /\ UNCHANGED <<download, err>>
    /\ UNCHANGED <<tokVars, op, arg, bpeTokens, tokens, ret, imgVars, clipVars, catVars,
                   runPc, runErr, dryRun, moveResults, fs>>

\* the file system after a failed download: the deferred os.Remove(tmpPath)
\* once the file was created, then os.Remove(path) in EnsureModels
downloadFailed(f, m, created) ==
    removeAll(f, (IF created THEN {tmpPathOf(modelPath(m))} ELSE {}) \cup {modelPath(m)})

\* downloadFile: http.Get and the check of the status
downloadGet ==
    /\ pc = "get"
    /\ events' = Append(events, <<"Get", RequiredFiles[download.m]>>)
    /\ \E outcome \in {"request failed", "status", "ok"} :
         IF outcome = "ok"
         THEN /\ \E body \in Bodies, hash \in ExpectedHashes :
                   download' = [download EXCEPT !.body = body, !.expectedHash = hash]
              /\ pc' = "create"
              /\ UNCHANGED <<fs, err>>
         ELSE /\ fs' = downloadFailed(fs, download.m, FALSE)
              /\ err' = "failed to download"
              /\ pc' = "returned"
              /\ UNCHANGED download
    /\ UNCHANGED <<tokVars, op, arg, bpeTokens, tokens, ret, imgVars, clipVars,
                   catPc, imagePaths, cats, threshold, progressFn, loopIndex, results, catErr,
                   backend, firstRun, runPc, runErr, dryRun, moveResults>>

\* downloadFile: os.Create(tmpPath)
downloadCreate ==
    /\ pc = "create"
    /\ \E created \in BOOLEAN :
         IF created
         THEN /\ fs' = [fs EXCEPT !.files = (tmpPathOf(modelPath(download.m)) :> <<>>) @@ @]
              /\ pc' = "read"
              /\ UNCHANGED err
         ELSE /\ fs' = downloadFailed(fs, download.m, FALSE)
              /\ err' = "failed to download"
              /\ pc' = "returned"
    /\ UNCHANGED <<tokVars, op, arg, bpeTokens, tokens, ret, imgVars, clipVars, catVars,
                   runPc, runErr, dryRun, moveResults, download>>

\* downloadFile: one turn of the read loop: bytes that are written and
\* hashed, the end of the body, or an error of the read or of the write
downloadRead ==
    /\ pc = "read"
    /\ LET tmpPath == tmpPathOf(modelPath(download.m))
           more == download.downloaded < Len(download.body)
       IN  \E outcome \in {"bytes", "write error", "read error", "EOF"} :
             IF outcome = "bytes" /\ more
             THEN LET chunk == download.body[download.downloaded + 1] IN
                  /\ fs' = [fs EXCEPT !.files[tmpPath] = Append(@, chunk)]
                  /\ download' = [download EXCEPT !.downloaded = @ + 1,
                                                  !.hashed = Append(@, chunk)]
                  /\ pc' = "read"
                  /\ UNCHANGED err
             ELSE IF outcome = "EOF" /\ ~more
             THEN pc' = "verify" /\ UNCHANGED <<fs, download, err>>
             ELSE IF outcome = "read error" \/ (outcome = "write error" /\ more)
             THEN /\ fs' = downloadFailed(fs, download.m, TRUE)
                  /\ err' = "failed to download"
                  /\ pc' = "returned"
                  /\ UNCHANGED download
             ELSE FALSE
    /\ UNCHANGED <<tokVars, op, arg, bpeTokens, tokens, ret, imgVars, clipVars, catVars,
                   runPc, runErr, dryRun, moveResults>>

\* a variant that renames without looking at the digest
downloadVerifyUnchecked ==
    /\ pc = "verify"
    /\ LET destPath == modelPath(download.m)
           tmpPath == tmpPathOf(destPath)
       IN  \E renamed \in BOOLEAN :
             IF renamed
             THEN /\ fs' = rename(fs, tmpPath, destPath)
                  /\ download' = [noDownload EXCEPT !.m = download.m + 1]
                  /\ pc' = "stat"
                  /\ UNCHANGED err
             ELSE /\ fs' = downloadFailed(fs, download.m, TRUE)
                  /\ err' = "failed to download"
                  /\ pc' = "returned"
                  /\ UNCHANGED download
    /\ UNCHANGED <<tokVars, op, arg, bpeTokens, tokens, ret, imgVars, clipVars, catVars,
                   runPc, runErr, dryRun, moveResults>>

\* downloadFile after the loop: the digest is compared when one is expected,
\* then os.Rename(tmpPath, destPath)
downloadVerify ==
    /\ pc = "verify"
    /\ LET destPath == modelPath(download.m)
           tmpPath == tmpPathOf(destPath)
           mismatch == /\ download.expectedHash # <<>>
                       /\ sha256(download.hashed) # download.expectedHash
       IN  \E renamed \in BOOLEAN :
             IF ~mismatch /\ renamed
             THEN /\ fs' = rename(fs, tmpPath, destPath)
                  /\ download' = [noDownload EXCEPT !.m = download.m + 1]
                  /\ pc' = "stat"
                  /\ UNCHANGED err
             ELSE /\ fs' = downloadFailed(fs, download.m, TRUE)
                  /\ err' = "failed to download"
                  /\ pc' = "returned"
                  /\ UNCHANGED download
    /\ UNCHANGED <<tokVars, op, arg, bpeTokens, tokens, ret, imgVars, clipVars, catVars,
                   runPc, runErr, dryRun, moveResults>>

\* the caller goes on, or exits with the error
EnsureModelsReturn ==
    /\ pc = "returned"
    /\ pc' = "exited"
    /\ UNCHANGED <<tokVars, op, arg, bpeTokens, tokens, ret, err, imgVars, clipVars,
                   catVars, runVars>>

DownloadNext ==
    \/ EnsureModelsCall
    \/ ensureStat
    \/ downloadGet
    \/ downloadCreate
    \/ downloadRead
    \/ downloadVerify
    \/ EnsureModelsReturn

SpecDownload == DownloadInit /\ [][DownloadNext]_vars

-----------------------------------------------------------------------------
(* Properties of the tokenizer *)

\* the ids of the symbols that have a vocabulary entry, in text order
knownIds ==
    LET known(sym) == sym \in DOMAIN encoder
        kept == SelectSeq(bpeTokens, known)
    IN  [i \in DOMAIN kept |-> encoder[kept[i]]]

\* C1: Encode returns exactly contextLen (77) entries, for every text and
\* every loaded vocabulary and merge table.
C1_EncodeLength == op = "Encode" => Len(ret) = contextLen

C1_Witness == op = "Encode" /\ Len(tokens) > contextLen /\ Len(ret) = contextLen

\* C2: when the text yields k <= 75 ids, Encode returns the start id, the k
\* ids in text order, the end id, and zeros from there on; the empty text
\* gives <<start, end, 0, 0, ...>>.
C2_EncodeLayout ==
    op = "Encode" =>
        LET k == Len(knownIds) IN
        /\ k <= contextLen - 2 =>
             /\ ret[1] = sotTokenID
             /\ \A i \in 1..k : ret[i + 1] = knownIds[i]
             /\ ret[k + 2] = eotTokenID
             /\ \A j \in (k + 3)..contextLen : ret[j] = 0
        /\ arg = <<>> =>
             ret = [i \in 1..contextLen |->
                      IF i = 1 THEN sotTokenID ELSE IF i = 2 THEN eotTokenID ELSE 0]

C2_Witness ==
    /\ op = "Encode"
    /\ Len(knownIds) = contextLen - 2
    /\ ret[contextLen] = eotTokenID
    /\ eotTokenID # 0

\* C3: when the text yields more than 75 ids, Encode reports no error and
\* returns the first 77 entries of <<start>> \o ids \o <<end>>.
C3_EncodeTruncates ==
    (op = "Encode" /\ Len(knownIds) > contextLen - 2) =>
        /\ err = ""
        /\ ret = SubSeq(<<sotTokenID>> \o knownIds \o <<eotTokenID>>, 1, contextLen)

C3_Witness ==
    /\ op = "Encode"
    /\ Len(knownIds) > contextLen
    /\ knownIds[contextLen - 1] # eotTokenID
    /\ ret[contextLen] = knownIds[contextLen - 1]

\* C4: a symbol without a vocabulary entry contributes no id; the ids of
\* the other symbols keep their order; no error is reported.
C4_UnknownDropped ==
    op = "Encode" =>
        /\ err = ""
        /\ tokens = <<sotTokenID>> \o knownIds \o <<eotTokenID>>

C4_Witness ==
    /\ op = "Encode"
    /\ Len(bpeTokens) <= MaxLen
    /\ \E i, j, k \in DOMAIN bpeTokens :
         /\ i < j /\ j < k
         /\ bpeTokens[i] \in DOMAIN encoder
         /\ bpeTokens[j] \notin DOMAIN encoder
         /\ bpeTokens[k] \in DOMAIN encoder
         /\ encoder[bpeTokens[i]] # encoder[bpeTokens[k]]

\* C5: a Tokenizer that LoadTokenizer returns without error holds the
\* start-of-text and the end-of-text string in its vocabulary, and
\* sotTokenID and eotTokenID are their ids.
C5_MarkersPresent ==
    (op = "LoadTokenizer" /\ err = "") =>
        /\ sotToken \in DOMAIN encoder
        /\ eotToken \in DOMAIN encoder
        /\ sotTokenID = encoder[sotToken]
        /\ eotTokenID = encoder[eotToken]

\* C6: once LoadTokenizer has returned, no call of Encode, EncodeCategories,
\* bpe or encodeBytes changes the vocabulary, the merge ranks, the start and
\* end ids or the byte-encoder table.
C6_TokenizerReadOnly ==
    [][(pc \in {"ready", "returned"}) => (tokVars' = tokVars)]_vars

C6_Witness ==
    /\ op \in {"Encode", "EncodeCategories", "bpe", "encodeBytes"}
    /\ DOMAIN encoder # {}
    /\ DOMAIN bpeRanks # {}
    /\ \E i \in DOMAIN bpeTokens : bpeTokens[i] \notin DOMAIN encoder

-----------------------------------------------------------------------------
(* Properties of the image pipeline *)

\* C8: for a decodable image of any width and height, PreprocessImage
\* returns a tensor of exactly 3*224*224 = 150528 values.
C8_TensorLength ==
    (op = "PreprocessImage" /\ err = "") => tensorLen = 150528

C8_Witness ==
    /\ op = "PreprocessImage"
    /\ err = ""
    /\ Dx(img.rect) < Dy(img.rect)
    /\ img.rect.minX # 0
    /\ tensorLen = 3 * clipImageSize * clipImageSize

\* C9: centerCrop on a W x H image returns the very same image when W = H;
\* otherwise a square of side min(W, H) whose colors are those of the source
\* from offset floor(|W - H| / 2) along the longer axis, every one of them
\* inside the source bounds, whatever the origin of the bounds.
C9_CenterCrop ==
    op = "centerCrop" =>
        LET w == Dx(img.rect)
            h == Dy(img.rect)
            side == IF w < h THEN w ELSE h
            offX == IF w > h THEN (w - h) \div 2 ELSE 0
            offY == IF h > w THEN (h - w) \div 2 ELSE 0
        IN  IF w = h THEN cropped = img
            ELSE /\ Dx(cropped.rect) = side
                 /\ Dy(cropped.rect) = side
                 /\ \A x \in 0..(side - 1), y \in 0..(side - 1) :
                      LET sx == img.rect.minX + offX + x
                          sy == img.rect.minY + offY + y
                      IN  /\ InRect(img.rect, sx, sy)
                          /\ At(cropped, cropped.rect.minX + x, cropped.rect.minY + y)
                               = <<sx, sy>>

C9_Witness ==
    /\ op = "centerCrop"
    /\ Dx(img.rect) - Dy(img.rect) = 3
    /\ img.rect.minX > 0
    /\ img.rect.minY < 0
    /\ cropped.id # img.id

\* C28 as stated: in resize, for every source of at least 1 x 1, smaller or
\* larger than 224, with any origin, and for every destination pixel, the
\* four sampled points (x0,y0), (x1,y0), (x0,y1), (x1,y1) lie inside the
\* source bounds, that is every sampled column and every sampled row does;
\* x0 = floor(x * srcW / 224) + minX, and x1 is x0 + 1 clamped to the last
\* column; the same for y.
C28_SamplesFloorAndClamp ==
    (op = "resize" /\ pc = "returned") =>
        LET b == img.rect IN
        /\ \A x \in 0..(clipImageSize - 1) :
             LET x0 == ret.xs[x][1]
                 x1 == ret.xs[x][2]
             IN  /\ b.minX <= x0 /\ x0 < b.maxX
                 /\ b.minX <= x1 /\ x1 < b.maxX
                 /\ x0 = (x * Dx(b)) \div clipImageSize + b.minX
                 /\ x1 = Min({x0 + 1, b.maxX - 1})
        /\ \A y \in 0..(clipImageSize - 1) :
             LET y0 == ret.ys[y][1]
                 y1 == ret.ys[y][2]
             IN  /\ b.minY <= y0 /\ y0 < b.maxY
                 /\ b.minY <= y1 /\ y1 < b.maxY
                 /\ y0 = (y * Dy(b)) \div clipImageSize + b.minY
                 /\ y1 = Min({y0 + 1, b.maxY - 1})

\* C28, amended: in resize, for every source of at least 1 x 1, smaller or
\* larger than 224, and for every destination pixel, the four sampled points
\* lie inside the source bounds; x0 is floor(x * srcW / 224) + minX, or one
\* column less where x * srcW / 224 is a whole number of at least 1, and x1
\* is x0 + 1 clamped to the last column; the same for y.
C28_SamplesInsideAndClamp ==
    (op = "resize" /\ pc = "returned") =>
        LET b == img.rect IN
        /\ \A x \in 0..(clipImageSize - 1) :
             LET x0 == ret.xs[x][1]
                 x1 == ret.xs[x][2]
                 k == (x * Dx(b)) \div clipImageSize
             IN  /\ b.minX <= x0 /\ x0 < b.maxX
                 /\ b.minX <= x1 /\ x1 < b.maxX
                 /\ \/ x0 = k + b.minX
                    \/ x0 = k - 1 + b.minX /\ k >= 1 /\ (x * Dx(b)) % clipImageSize = 0
                 /\ x1 = Min({x0 + 1, b.maxX - 1})
        /\ \A y \in 0..(clipImageSize - 1) :
             LET y0 == ret.ys[y][1]
                 y1 == ret.ys[y][2]
                 k == (y * Dy(b)) \div clipImageSize
             IN  /\ b.minY <= y0 /\ y0 < b.maxY
                 /\ b.minY <= y1 /\ y1 < b.maxY
                 /\ \/ y0 = k + b.minY
                    \/ y0 = k - 1 + b.minY /\ k >= 1 /\ (y * Dy(b)) % clipImageSize = 0
                 /\ y1 = Min({y0 + 1, b.maxY - 1})

\* a source narrower and taller than the destination, away from the origin:
\* the last destination column reads the last source column twice
C28_Witness ==
    /\ op = "resize"
    /\ pc = "returned"
    /\ Dx(img.rect) = MaxDim
    /\ Dy(img.rect) > clipImageSize
    /\ img.rect.minX < 0
    /\ img.rect.minY > 0
    /\ ret.xs[clipImageSize - 1] = <<img.rect.maxX - 1, img.rect.maxX - 1>>
    /\ ret.ys[clipImageSize - 1][2] = ret.ys[clipImageSize - 1][1] + 1

-----------------------------------------------------------------------------
(* Properties of Classify *)

\* C7: for a vocabulary that gives every id in [0, size) to exactly one
\* string and has both marker strings, the attention mask Classify
\* builds is 1 exactly at the positions that hold a token (start marker, the
\* ids of the prompt, end marker) and 0 exactly at the padding positions.
C7_MaskMarksTokens ==
    (/\ op = "Classify"
     /\ attentionMask # <<>>
     /\ sotToken \in DOMAIN encoder
     /\ eotToken \in DOMAIN encoder
     /\ {encoder[k] : k \in DOMAIN encoder} = 0..(Cardinality(DOMAIN encoder) - 1)
     /\ \A k1, k2 \in DOMAIN encoder : encoder[k1] = encoder[k2] => k1 = k2) =>
        \A r \in DOMAIN promptTokens : \A i \in 1..contextLen :
            attentionMask[(r - 1) * contextLen + i]
                = (IF i <= Len(promptTokens[r]) THEN 1 ELSE 0)

\* C10: for a category list c1..cN, Classify builds the labels
\* [baseline, c1, .., cN] in caller order and a token-id buffer of (N+1)*77
\* entries: row 0 is Encode("a photo"), row i is Encode("a photo of " + ci);
\* the attention mask is as long as the buffer.
C10_LabelsAndRows ==
    (op = "Classify" /\ err # "cannot preprocess image") =>
        LET cs == arg.categories
            n == Len(cs)
            row(r) == [i \in 1..contextLen |-> tokenIDs[(r * contextLen) + i]]
            enc(text) == Encode(byteEncoder, bpeRanks, encoder, sotTokenID, eotTokenID, text)
        IN  /\ allLabels = <<S(<<"u","n","c","a","t","e","g","o","r","i","z","e","d">>)>> \o cs
            /\ Len(tokenIDs) = (n + 1) * 77
            /\ row(0) = enc(S(<<"a"," ","p","h","o","t","o">>))
            /\ \A i \in 1..n :
                 row(i) = enc(S(<<"a"," ","p","h","o","t","o"," ","o","f"," ">>) \o cs[i])
            /\ Len(attentionMask) = Len(tokenIDs)

C10_Witness ==
    /\ op = "Classify"
    /\ err = ""
    /\ encoder = vocabCLIP
    /\ Len(arg.categories) = MaxCats
    /\ arg.categories[1] # arg.categories[MaxCats]
    /\ Len(promptTokens[1]) = 4
    /\ \E r \in 2..Len(promptTokens) : Len(promptTokens[r]) > 5
    /\ DOMAIN scores = {allLabels[i] : i \in DOMAIN allLabels}

\* C11: for a category list of size N >= 1, the map a successful Classify
\* returns has exactly N+1 entries, one per label, baseline included.
C11_OneEntryPerLabel ==
    (op = "Classify" /\ err = "" /\ Len(arg.categories) >= 1) =>
        Cardinality(DOMAIN scores) = Len(arg.categories) + 1

\* C12: softmax returns one value per logit, each in [0, 1], summing to 1.0
\* within 1e-3, a larger logit getting a larger value; and the values of the
\* map Classify returns sum to 1.0 within 1e-3.
C12_SoftmaxAndMapSum ==
    (op = "Classify" /\ err = "") =>
        LET probs == softmax(logits)
            tolerance == probScale \div 1000
            near(x) == x >= probScale - tolerance /\ x <= probScale + tolerance
            keys == [i \in DOMAIN allLabels |->
                        IF \A j \in DOMAIN allLabels : allLabels[j] = allLabels[i] => j <= i
                        THEN scores[allLabels[i]] ELSE 0]
        IN  /\ Len(probs) = Len(logits)
            /\ \A i \in DOMAIN probs : probs[i] >= 0 /\ probs[i] <= probScale
            /\ near(sumOf(probs))
            /\ \A i, j \in DOMAIN probs : logits[i] > logits[j] => probs[i] > probs[j]
            /\ near(sumOf(keys))

-----------------------------------------------------------------------------
(* Properties of Categorize *)

\* C13: whenever the baseline probability is >= the probability of every
\* caller category, the image is reported as skipped, whatever the threshold
\* (zero and negative thresholds included).
C13_BaselineWinsSkips ==
    \A k \in DOMAIN results :
        backend[k].err = "" =>
            LET sc == classifyResult(cats, backend[k]).scores IN
            (\A c \in DOMAIN cats : sc[BaselineCategory] >= sc[cats[c]])
                => results[k].Skipped

C13_Witness ==
    /\ catPc = "done"
    /\ threshold < 0
    /\ \E k \in DOMAIN results :
         /\ backend[k].err = ""
         /\ results[k].Skipped
         /\ LET sc == classifyResult(cats, backend[k]).scores IN
            \A c \in DOMAIN cats : sc[BaselineCategory] = sc[cats[c]]

\* C14: an image is accepted exactly when the largest probability among the
\* labels other than the baseline is strictly greater than the baseline
\* probability and not below the threshold; the accepted Result names a caller
\* category that no other category beats, with that category's probability.
C14_AcceptedExactlyWhen ==
    \A k \in DOMAIN results :
        backend[k].err = "" =>
            LET sc == classifyResult(cats, backend[k]).scores
                others == DOMAIN sc \ {BaselineCategory}
                r == results[k]
            IN  /\ (~r.Skipped) <=>
                       \E c \in others :
                           /\ \A d \in others : sc[d] <= sc[c]
                           /\ sc[c] > sc[BaselineCategory]
                           /\ sc[c] >= threshold
                /\ (~r.Skipped) =>
                       /\ \E c \in DOMAIN cats : cats[c] = r.Category
                       /\ r.Category # BaselineCategory
                       /\ \A d \in others : sc[d] <= sc[r.Category]
                       /\ r.Confidence = sc[r.Category]

C14_Witness ==
    /\ catPc = "done"
    /\ Len(results) = 2
    /\ backend[1].err = ""
    /\ backend[2].err = ""
    /\ ~results[1].Skipped
    /\ results[1].Confidence = threshold
    /\ results[2].Skipped

\* C15: for the same score maps and thresholds t1 <= t2, an image skipped at
\* t1 is skipped at t2, and an image accepted at t2 is accepted at t1 with the
\* same category and confidence.
C15_ThresholdMonotone ==
    (catPc = "done" /\ Len(firstRun) > 0) =>
        \A k \in DOMAIN results :
            /\ firstRun[1].results[k].Skipped => results[k].Skipped
            /\ (~results[k].Skipped) => results[k] = firstRun[1].results[k]

\* C16: two runs of Categorize on the same paths, categories, threshold and
\* model logits give identical Results, also when categories tie for the
\* largest probability.
C16_SameInputsSameResults ==
    (catPc = "done" /\ Len(firstRun) > 0 /\ firstRun[1].threshold = threshold) =>
        results = firstRun[1].results

\* C17: Categorize with an empty category list returns an error and no
\* results, classifies no image and never calls the progress callback.
C17_EmptyCategoriesRejected ==
    (catPc # "idle" /\ Len(cats) = 0) =>
        /\ catPc = "done"
        /\ catErr = "no categories provided"
        /\ results = <<>>
        /\ events = <<>>

C17_Witness ==
    /\ catPc = "done"
    /\ Len(cats) = 0
    /\ Len(imagePaths) = MaxImages
    /\ progressFn
    /\ catErr # ""

\* C18: an image whose Classify fails gets a Result with Skipped = true, no
\* Category and zero Confidence; the later images are still processed and
\* Categorize returns a nil error; every skipped Result has no Category and
\* zero Confidence.
C18_FailureBecomesSkip ==
    (catPc # "idle" /\ Len(cats) > 0) =>
        /\ \A k \in DOMAIN results :
             /\ backend[k].err # "" =>
                  results[k] = [Path |-> imagePaths[k], Category |-> <<>>,
                                Confidence |-> 0, Skipped |-> TRUE]
             /\ results[k].Skipped =>
                  results[k].Category = <<>> /\ results[k].Confidence = 0
        /\ catErr = ""
        /\ catPc = "done" => Len(results) = Len(imagePaths)

C18_Witness ==
    /\ catPc = "done"
    /\ Len(results) = 2
    /\ backend[1].err = "cannot preprocess image"
    /\ backend[2].err = ""
    /\ results[1].Skipped
    /\ ~results[2].Skipped
    /\ catErr = ""

\* C19: for a non-empty category list, Classify is called exactly once per
\* image path, in input order, never again after a failure, each image decided
\* before the next begins; there is one Result per path, results[k].Path being
\* the k-th path; the progress callback gets (k, total) before image k is
\* classified.
C19_OncePerImageInOrder ==
    (catPc # "idle" /\ Len(cats) > 0) =>
        LET total == Len(imagePaths)
            perImage(k) ==
                (IF progressFn THEN <<(<<"progress", k, total>>)>> ELSE <<>>)
                \o <<(<<"Classify", imagePaths[k]>>)>>
            started ==
                IF catPc = "classify" /\ progressFn
                THEN <<(<<"progress", loopIndex + 1, total>>)>> ELSE <<>>
        IN  /\ events = Flatten([k \in 1..loopIndex |-> perImage(k)]) \o started
            /\ Len(results) = loopIndex
            /\ \A k \in DOMAIN results : results[k].Path = imagePaths[k]
            /\ catPc = "done" => loopIndex = total

C19_Witness ==
    /\ catPc = "done"
    /\ Len(imagePaths) = 2
    /\ progressFn
    /\ Len(backend) = 2
    /\ backend[1].err = "inference failed"
    /\ Len(events) = 4
    /\ Len(results) = 2

-----------------------------------------------------------------------------
(* Properties of the command line run *)

\* C20: when EnsureModels or NewCLIPSession fails, the run returns that error
\* before any image is classified and before any file is moved.
C20_LoadFailureAborts ==
    /\ runPc \in {"idle", "resolve", "scan", "models", "session"} => events = <<>>
    /\ runErr \in {"model setup failed", "cannot load CLIP model"} =>
         /\ runPc = "returned"
         /\ catPc = "idle"
         /\ events = <<>>
         /\ results = <<>>
         /\ moveResults = <<>>

C20_Witness ==
    /\ runPc = "returned"
    /\ runErr = "cannot load CLIP model"
    /\ err = "cannot load tokenizer"
    /\ session = "destroyed"
    /\ Len(imagePaths) = MaxImages
    /\ ~dryRun

-----------------------------------------------------------------------------
(* Properties of the tokenizer tables *)

\* C26: LoadTokenizer gives each merge rule the rank of its position in the
\* list of rules of the merges file (0-based, a first '#' line left out),
\* whatever blank, malformed or repeated lines the file has; so distinct pairs
\* never share a rank.
C26_RankIsPosition ==
    (op = "LoadTokenizer" /\ err = "") =>
        \A mf \in MergesFiles :
            (mf.kind = "text" /\ parseMerges(mf.data) = bpeRanks) =>
                LET lines == splitLines(mf.data)
                    body == IF Len(lines) > 0 /\ HasPrefix(lines[1], S(<<"#">>))
                            THEN SubSeq(lines, 2, Len(lines)) ELSE lines
                    parts == [k \in DOMAIN body |-> splitN2(TrimSpace(body[k]))]
                    rules == SelectSeq(parts, LAMBDA q : Len(q) = 2)
                IN  /\ DOMAIN bpeRanks = {rules[k] : k \in DOMAIN rules}
                    /\ \A q \in DOMAIN bpeRanks :
                         \E k \in DOMAIN rules : rules[k] = q /\ bpeRanks[q] = k - 1
                    /\ \A q1, q2 \in DOMAIN bpeRanks :
                         bpeRanks[q1] = bpeRanks[q2] => q1 = q2

\* C27: the byte encoder has an entry for each of the 256 bytes and no two
\* bytes share a code point: bytes 33..126, 161..172 and 174..255 map to
\* themselves, the other 68 to 256, 257, ... in increasing byte order; so
\* encodeBytes gives one symbol per byte of its input.
C27_ByteEncoderTable ==
    LET self == (33..126) \cup (161..172) \cup (174..255)
        rest == (0..255) \ self
    IN  /\ DOMAIN byteEncoder = 0..255
        /\ Cardinality({byteEncoder[b] : b \in 0..255}) = 256
        /\ \A b \in self : byteEncoder[b] = b
        /\ Cardinality(rest) = 68
        /\ {byteEncoder[b] : b \in rest} = 256..323
        /\ \A b1, b2 \in rest : b1 < b2 => byteEncoder[b1] < byteEncoder[b2]
        /\ op = "encodeBytes" =>
             /\ Len(ret) = Len(Utf8(arg))
             /\ \A k \in DOMAIN ret : ret[k] = byteEncoder[Utf8(arg)[k]]

C27_Witness ==
    /\ op = "encodeBytes"
    /\ Len(arg) = MaxLen
    /\ Len(ret) = 2 * MaxLen
    /\ byteEncoder[32] = 288
    /\ byteEncoder[173] = 323

-----------------------------------------------------------------------------
(* Properties of bpe *)

\* C24 as stated: for every word and every merge-rank table, bpe returns what
\* the reference merger returns that at each step merges one adjacent pair
\* only, the first-encountered pair with the globally lowest rank, and then
\* rescans.
C24_SingleMergeReference ==
    (pc = "returned" /\ op = "bpe") =>
        LET known(w) == {i \in 1..(Len(w) - 1) : <<w[i], w[i + 1]>> \in DOMAIN bpeRanks}
            rank(w, i) == bpeRanks[<<w[i], w[i + 1]>>]
            first(w) == CHOOSE i \in known(w) :
                            /\ \A j \in known(w) : rank(w, i) <= rank(w, j)
                            /\ \A j \in known(w) : j < i => rank(w, j) > rank(w, i)
            mergeAt(w, i) == SubSeq(w, 1, i - 1) \o <<w[i] \o w[i + 1]>>
                             \o SubSeq(w, i + 2, Len(w))
            RECURSIVE reference(_)
            reference(w) == IF Len(w) <= 1 \/ known(w) = {} THEN w
                            ELSE reference(mergeAt(w, first(w)))
        IN  ret = IF Len(arg) = 0 THEN <<>> ELSE reference(splitWord(arg))

\* C24, amended: for every word and every merge-rank table, bpe returns what
\* the reference merger returns that at each step takes the first-encountered
\* pair with the globally lowest rank, merges its occurrences one at a time,
\* leftmost first, until the word has none left, and only then rescans for
\* the next pair.
C24_PairwiseReference ==
    (pc = "returned" /\ op = "bpe") =>
        LET known(w) == {i \in 1..(Len(w) - 1) : <<w[i], w[i + 1]>> \in DOMAIN bpeRanks}
            rank(w, i) == bpeRanks[<<w[i], w[i + 1]>>]
            first(w) == CHOOSE i \in known(w) :
                            /\ \A j \in known(w) : rank(w, i) <= rank(w, j)
                            /\ \A j \in known(w) : j < i => rank(w, j) > rank(w, i)
            mergeAt(w, i) == SubSeq(w, 1, i - 1) \o <<w[i] \o w[i + 1]>>
                             \o SubSeq(w, i + 2, Len(w))
            places(w, q) == {i \in 1..(Len(w) - 1) : <<w[i], w[i + 1]>> = q}
            RECURSIVE exhaust(_, _)
            exhaust(w, q) == IF places(w, q) = {} THEN w
                             ELSE exhaust(mergeAt(w, Min(places(w, q))), q)
            RECURSIVE reference(_)
            reference(w) == IF Len(w) <= 1 \/ known(w) = {} THEN w
                            ELSE LET i == first(w) IN
                                 reference(exhaust(w, <<w[i], w[i + 1]>>))
        IN  ret = IF Len(arg) = 0 THEN <<>> ELSE reference(splitWord(arg))

\* a word in which the chosen pair occurs twice, merged in one turn
C24_Witness ==
    /\ pc = "returned"
    /\ op = "bpe"
    /\ Len(arg) = 5
    /\ Len(ret) = 3
    /\ ret[1] = ret[2]
    /\ Len(ret[1]) = 2

\* C25: bpe terminates for every word and merge table, and what it returns
\* is either a single symbol or a sequence in which no adjacent pair has an
\* entry in the merge-rank table.
C25_TerminatesSettled ==
    /\ [](pc = "returned" /\ op = "bpe" =>
            \/ Len(ret) = 1
            \/ \A i \in 1..(Len(ret) - 1) : <<ret[i], ret[i + 1]>> \notin DOMAIN bpeRanks)
    /\ (pc = "bpeLoop") ~> (pc = "returned")

\* a return after some merges with more than one symbol left
C25_Witness ==
    /\ pc = "returned"
    /\ op = "bpe"
    /\ Len(ret) >= 2
    /\ Len(ret) < Len(arg)
    /\ bpeRanks # <<>>

-----------------------------------------------------------------------------
(* Properties of Scan *)

\* C23: Scan of a directory returns as ImagePaths exactly the entries that
\* are not directories, not dot-prefixed, and whose name ends, compared
\* without regard to case, in a supported extension; SkippedCount is the
\* number of the other entries that are neither directories nor
\* dot-prefixed; Scan returns an error when there is no image file.
C23_ScanFilters ==
    (op = "Scan" /\ pc = "returned" /\ arg.kind = "directory") =>
        LET es == {arg.entries[k] : k \in DOMAIN arg.entries}
            visible == {e \in es : ~e.IsDir /\ e.Name[1] # Ord(".")}
            endsIn(n, x) == Len(n) >= Len(x)
                            /\ ToLower(SubSeq(n, Len(n) - Len(x) + 1, Len(n))) = x
            images == {e \in visible : \E x \in SupportedExtensions : endsIn(e.Name, x)}
        IN  IF images = {} THEN err = "no image files found"
            ELSE /\ err = ""
                 /\ Len(ret.ImagePaths) = Cardinality(images)
                 /\ {ret.ImagePaths[k] : k \in DOMAIN ret.ImagePaths}
                      = {arg.path \o <<Ord("/")>> \o e.Name : e \in images}
                 /\ ret.SkippedCount = Cardinality(visible \ images)

\* a directory with an image spelled in capitals, a hidden image, a
\* subdirectory named like an image and a file that is no image
C23_Witness ==
    /\ op = "Scan"
    /\ pc = "returned"
    /\ err = ""
    /\ Len(arg.entries) = 4
    /\ Len(ret.ImagePaths) = 1
    /\ ret.SkippedCount = 1
    /\ \E k \in DOMAIN arg.entries : arg.entries[k].IsDir
    /\ ret.ImagePaths[1] = S(<<"/","d","/","A",".","J","P","G">>)

-----------------------------------------------------------------------------
(* Properties of MoveFiles *)

\* C21: MoveFiles with dryRun = true creates no directory and moves or
\* renames no file, the file system stays as it is, and it returns exactly
\* one MoveResult for every Result that is not skipped and none for a
\* skipped one.
C21_DryRunLeavesFiles ==
    [][(pc = "ready" /\ op' = "MoveFiles" /\ dryRun') =>
          /\ fs' = fs
          /\ err' = ""
          /\ Len(moveResults') = Cardinality({k \in DOMAIN results' : ~results'[k].Skipped})
          /\ \A r \in MoveResultValues :
               Cardinality({k \in DOMAIN moveResults' :
                               /\ moveResults'[k].SourcePath = r.Path
                               /\ moveResults'[k].Category = r.Category})
                 = IF r.Skipped THEN 0
                   ELSE Cardinality({k \in DOMAIN results' : results'[k] = r})]_vars

\* a dry run over a skipped and a categorized image whose name is taken in
\* the category folder
C21_Witness ==
    /\ pc = "returned"
    /\ op = "MoveFiles"
    /\ dryRun
    /\ Len(results) = 2
    /\ results[1].Skipped
    /\ Len(moveResults) = 1
    /\ moveResults[1].DestPath \in DOMAIN fs.files
    /\ Join(moveBaseDir, S(<<"s">>)) \notin fs.dirs

\* C22: MoveFiles with dryRun = false never overwrites a file: a file whose
\* destination <category>/<name><ext> exists is moved to <name>_i<ext> for the
\* smallest i >= 1 that does not exist, every file that was in a category
\* folder before keeps its content, and no two files of one call end at the
\* same destination.
C22_NeverOverwrites ==
    [][(pc = "ready" /\ op' = "MoveFiles" /\ ~dryRun') =>
          /\ \A q \in DOMAIN fs.files \ DOMAIN MoveSources :
               q \in DOMAIN fs'.files /\ fs'.files[q] = fs.files[q]
          /\ \A a, b \in DOMAIN moveResults' :
               moveResults'[a].DestPath = moveResults'[b].DestPath => a = b
          /\ \A k \in DOMAIN moveResults' :
               LET m == moveResults'[k]
                   want == Join(Join(moveBaseDir, m.Category), Base(m.SourcePath))
                   ext == Ext(Base(want))
                   stem == SubSeq(want, 1, Len(want) - Len(ext))
                   numbered(i) == stem \o <<Ord("_")>> \o Itoa(i) \o ext
               IN  /\ m.DestPath \notin DOMAIN fs.files
                   /\ m.DestPath \in DOMAIN fs'.files
                   /\ fs'.files[m.DestPath] = fs.files[m.SourcePath]
                   /\ \/ m.DestPath = want
                      \/ \E i \in 1..(MaxImages + 2) :
                           /\ m.DestPath = numbered(i)
                           /\ want \in DOMAIN fs'.files
                           /\ \A j \in 1..(i - 1) : numbered(j) \in DOMAIN fs'.files]_vars

\* two images of the same name go to a folder that holds that name and its
\* first numbered name: they end as _2 and _3
C22_Witness ==
    /\ pc = "returned"
    /\ op = "MoveFiles"
    /\ ~dryRun
    /\ err = ""
    /\ Len(moveResults) = 2
    /\ moveResults[1].DestPath
         = S(<<"/","d","/","c","/","a","_">>) \o Itoa(2) \o S(<<".","j","p","g">>)
    /\ moveResults[2].DestPath
         = S(<<"/","d","/","c","/","a","_">>) \o Itoa(3) \o S(<<".","j","p","g">>)
    /\ fs.files[S(<<"/","d","/","c","/","a",".","j","p","g">>)] = 7
    /\ fs.files[S(<<"/","d","/","c","/","a","_","1",".","j","p","g">>)] = 8

\* C30: downloadFile never leaves partial or unverified content at the
\* destination path. In every step of EnsureModels: a model file that is
\* there stays as it is; a model file appears only in the rename, with the
\* whole body that was read, written and hashed, the digest equal to the
\* expected one when one is given, and its .tmp file gone; a step that fails
\* leaves neither the destination nor any .tmp file; a download starts only
\* for a file that is not there and only before the first failure, after
\* which nothing is downloaded or written.
C30_DownloadIsAtomic ==
    [][/\ \A m \in DOMAIN RequiredFiles :
            LET destPath == modelPath(m)
                tmpPath == tmpPathOf(destPath)
            IN  /\ exists(fs, destPath)
                     => exists(fs', destPath) /\ fs'.files[destPath] = fs.files[destPath]
                /\ ~exists(fs, destPath) /\ exists(fs', destPath)
                     => /\ pc = "verify"
                        /\ m = download.m
                        /\ download.hashed = download.body
                        /\ fs.files[tmpPath] = download.body
                        /\ fs'.files[destPath] = download.body
                        /\ download.expectedHash # <<>>
                             => sha256(fs'.files[destPath]) = download.expectedHash
                        /\ ~exists(fs', tmpPath)
                /\ err = "" /\ err' # ""
                     => /\ ~exists(fs', tmpPath)
                        /\ m = download.m => ~exists(fs', destPath)
       /\ events' # events => err = "" /\ ~exists(fs, modelPath(download.m))
       /\ err # "" => fs' = fs /\ events' = events
      ]_vars

\* the first file was downloaded and renamed, the second failed after bytes
\* were written, the third was there before and was left alone
C30_Witness ==
    /\ pc = "returned"
    /\ err = "failed to download"
    /\ download.m = 2
    /\ download.downloaded = 1
    /\ download.expectedHash # <<>>
    /\ exists(fs, modelPath(1)) /\ fs.files[modelPath(1)] = wholeBody
    /\ ~exists(fs, modelPath(2))
    /\ ~exists(fs, tmpPathOf(modelPath(2)))
    /\ exists(fs, modelPath(3)) /\ fs.files[modelPath(3)] = olderContent
    /\ Len(events) = 2

====
